----------------------------- MODULE MCGenerator -----------------------------
(* Two backends, one with the name of the glue's default file, two methods *)
(* the command supports and one it does not.                               *)
EXTENDS Generator, TLC

CONSTANTS find, create, stream

TwoNames == {<<"sqlite">>, <<"gen">>}

Good(b) == [name |-> <<b>>, ok |-> TRUE]

SmallInterfaces == {{}, {find}, {find, create}, {find, stream}}

Asking(specs) == [specs |-> specs, test |-> FALSE, file |-> FALSE, loads |-> TRUE, out |-> OutPath]

\* One backend by flags, two by a config file with tests and the glue in
\* another directory, none, one whose stub is the glue's file, a duplicate, an
\* unusable backend, a file in error.
SmallConfigs ==
    {Asking(<<Good("sqlite")>>),
     [Asking(<<Good("sqlite"), Good("gen")>>)
         EXCEPT !.test = TRUE, !.file = TRUE, !.out = AwayPath],
     Asking(<<>>),
     Asking(<<Good("gen")>>),
     Asking(<<Good("gen"), Good("gen")>>),
     Asking(<<[Good("gen") EXCEPT !.ok = FALSE]>>),
     [Asking(<<Good("gen")>>) EXCEPT !.file = TRUE, !.loads = FALSE]}
============================================================================

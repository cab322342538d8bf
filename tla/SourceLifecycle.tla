-------------------------- MODULE SourceLifecycle --------------------------
(***************************************************************************)
(* What a directory of data sources promises, without its locks, its wait  *)
(* groups or its goroutines.  A source is one successful driver open: it   *)
(* is published under a name, admits work while it is published, is        *)
(* retired, and is closed once, when the last work on it has left.         *)
(* Directory.tla implements this module; Executor.tla is built on it.      *)
(***************************************************************************)
EXTENDS FiniteSets

CONSTANTS
    Procs,    \* goroutines that run work against a source
    Names,    \* source names (never the empty string)
    Ids,      \* one element for every successful driver open
    None      \* no source

ASSUME NoneAssumption == None \notin Ids /\ None \notin Procs /\ None \notin Names

VARIABLES
    stage,    \* stage[c]: how far source c has come
    reg,      \* reg[n]: the source published under n, or None
    users,    \* users[c]: the goroutines whose work has been admitted to c
    shut      \* the directory has been closed for good

lifecycleVars == <<stage, reg, users, shut>>

Stages == {"none", "opened", "visible", "retired", "closed"}

LifecycleTypeOK ==
    /\ stage \in [Ids -> Stages]
    /\ reg \in [Names -> Ids \cup {None}]
    /\ users \in [Ids -> SUBSET Procs]
    /\ shut \in BOOLEAN

LifecycleInit ==
    /\ stage = [c \in Ids |-> "none"]
    /\ reg = [n \in Names |-> None]
    /\ users = [c \in Ids |-> {}]
    /\ shut = FALSE

----------------------------------------------------------------------------

\* A driver hands out a new client.
OpenSource(c) ==
    /\ stage[c] = "none"
    /\ stage' = [stage EXCEPT ![c] = "opened"]
    /\ UNCHANGED <<reg, users, shut>>

\* The client becomes the source called n; a closed directory and a name
\* that is taken admit nobody.
PublishSource(c, n) ==
    /\ stage[c] = "opened"
    /\ ~shut
    /\ reg[n] = None
    /\ reg' = [reg EXCEPT ![n] = c]
    /\ stage' = [stage EXCEPT ![c] = "visible"]
    /\ UNCHANGED <<users, shut>>

\* The name is given up; work that was admitted goes on.
RetireSource(n) ==
    /\ reg[n] # None
    /\ stage' = [stage EXCEPT ![reg[n]] = "retired"]
    /\ reg' = [reg EXCEPT ![n] = None]
    /\ UNCHANGED <<users, shut>>

\* Every name is given up at once, for ever.
RetireAll ==
    /\ shut' = TRUE
    /\ reg' = [n \in Names |-> None]
    /\ stage' = [c \in Ids |-> IF \E n \in Names : reg[n] = c THEN "retired" ELSE stage[c]]
    /\ UNCHANGED users

\* Work is admitted only to the source its name stands for at that moment.
AdmitWork(p, c) ==
    /\ \E n \in Names : reg[n] = c
    /\ p \notin users[c]
    /\ users' = [users EXCEPT ![c] = @ \cup {p}]
    /\ UNCHANGED <<stage, reg, shut>>

FinishWork(p, c) ==
    /\ p \in users[c]
    /\ users' = [users EXCEPT ![c] = @ \ {p}]
    /\ UNCHANGED <<stage, reg, shut>>

\* Only a client nobody can reach and nobody uses is closed: one that was
\* retired, or one that was opened and never published.
CloseSource(c) ==
    /\ stage[c] \in {"opened", "retired"}
    /\ users[c] = {}
    /\ stage' = [stage EXCEPT ![c] = "closed"]
    /\ UNCHANGED <<reg, users, shut>>

LifecycleNext ==
    \/ \E c \in Ids :
          \/ OpenSource(c)
          \/ CloseSource(c)
          \/ \E n \in Names : PublishSource(c, n)
          \/ \E p \in Procs : AdmitWork(p, c) \/ FinishWork(p, c)
    \/ \E n \in Names : RetireSource(n)
    \/ RetireAll

LifecycleSpec == LifecycleInit /\ [][LifecycleNext]_lifecycleVars

----------------------------------------------------------------------------

\* A client that is in use has not been closed: nobody's function is handed
\* a connection another goroutine has torn down.
NoUseAfterClose ==
    \A c \in Ids : users[c] # {} => stage[c] \in {"visible", "retired"}

\* A name and a stage never disagree: the published sources are exactly the
\* visible ones and no source has two names.
VisibleIffRegistered ==
    /\ \A c \in Ids : stage[c] = "visible" <=> \E n \in Names : reg[n] = c
    /\ \A m, n \in Names : reg[m] = reg[n] /\ reg[m] # None => m = n
============================================================================

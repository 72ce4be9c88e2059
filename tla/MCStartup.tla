----------------------------- MODULE MCStartup -----------------------------
(***************************************************************************)
(* What a program starts with, side by side: a behaviour is one of the     *)
(* scaffold and its modules or of the layered configuration, its subject.  *)
(* The other one stays in one initial state.                               *)
(***************************************************************************)
EXTENDS Scaffold, Configuration, TLC

CONSTANTS m1, m2, m3, na, nb, nc

VARIABLE subject

Three == {m1, m2, m3}
Abc == {na, nb, nc}

(* The modules m1, m2, m3 with the names and dependencies ns and ds and all *)
(* their priorities from ps                                                 *)
Declare(ns, ds, ps) ==
    {[m \in Three |->
        LET i == CASE m = m1 -> 1 [] m = m2 -> 2 [] m = m3 -> 3
        IN  [name |-> ns[i], dependsOn |-> ds[i], priority |-> p[i]]] :
      p \in [1..3 -> ps]}

(* Independent modules, a chain, a fork, a join, a circle, a dependency on *)
(* oneself, a shadowed name, a name nobody has                             *)
Shapes ==
    Declare(<<na, nb, nc>>, <<{}, {}, {}>>, {0, 1})
    \cup Declare(<<na, nb, nc>>, <<{nb}, {nc}, {}>>, {0})
    \cup Declare(<<na, nb, nc>>, <<{nb, nc}, {}, {}>>, {0})
    \cup Declare(<<na, nb, nc>>, <<{}, {na}, {na}>>, {0, 1})
    \cup Declare(<<na, nb, nc>>, <<{nb}, {na}, {}>>, {0})
    \cup Declare(<<na, nb, nc>>, <<{na}, {}, {}>>, {0})
    \cup Declare(<<na, na, nc>>, <<{}, {}, {na}>>, {0})
    \cup Declare(<<na, na, nb>>, <<{na}, {}, {na}>>, {0})
    \cup Declare(<<na, na, nb>>, <<{}, {}, {nc}>>, {0})

StartupInit ==
    /\ subject \in {"scaffold", "config"}
    /\ Init /\ ConfigInit /\ RemoteInit
    /\ subject # "scaffold" => decl = CHOOSE d \in Declarations : TRUE
    /\ subject # "config" => prefix = "SOUL_"

StartupNext ==
    /\ UNCHANGED <<subject, remoteVars>>
    /\ \/ subject = "scaffold" /\ Next /\ UNCHANGED configVars
       \/ subject = "config" /\ ConfigNext /\ UNCHANGED vars

StartupSpec ==
    /\ StartupInit /\ [][StartupNext]_<<subject, vars, configVars, remoteVars>>
    /\ WF_vars(RunStep) /\ WF_vars(ShutdownStep)

=============================================================================

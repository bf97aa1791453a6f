------------------------------ MODULE MCAtomics ------------------------------
(***************************************************************************)
(* The programs of Atomic & Lock: autoinc.cc with its spin lock, and the   *)
(* three programs of MemoryOrders.  A behaviour runs one of them; the      *)
(* variables of the others keep their initial values.                      *)
(***************************************************************************)
EXTENDS SpinLock

VARIABLES executed,                            \* "autoinc" or "orders"
          name, program, round, mem, seen, at, z

orders == <<name, program, round, mem, seen, at, z>>
Orders == INSTANCE MemoryOrders WITH view <- seen, pc <- at

AtomicsInit ==
    /\ executed \in {"autoinc", "orders"}
    /\ LockInit
    /\ Orders!Init
    /\ executed = "autoinc" => name = "acquire_release"

AtomicsNext ==
    \/ executed = "autoinc" /\ LockNext /\ UNCHANGED <<executed, orders>>
    \/ executed = "orders" /\ Orders!Next /\ UNCHANGED <<executed, lockVars>>

AtomicsSpec ==
    /\ AtomicsInit
    /\ [][AtomicsNext]_<<executed, lockVars, orders>>
    /\ executed = "autoinc" => \A t \in Threads : WF_lockVars(Step(t))

\* The comment of acquire_release.cc, that its z is certain to become 1, and the
\* assertion of seq_cst.cc, that its readers cannot both miss the other's store.
OrdersSuffice == Orders!CertainlyOne /\ Orders!NotBothMiss

\* All threads of autoinc.cc get the spin lock often enough to finish, also the
\* one that only tries for it.
AutoincEnds == executed = "autoinc" => Termination
=============================================================================

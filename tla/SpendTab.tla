----------------------------- MODULE SpendTab -----------------------------
(***************************************************************************)
(* The spend tab (ui/src/components/SpendTab.tsx) holds its routes side by *)
(* side: ClassicalSpend and PqSpend stay mounted while the user switches   *)
(* between them.  They share the selected network only, which PqSpend      *)
(* reads once, and no account: what one does is invisible to the other, so *)
(* a behaviour uses one route (a bound).  The third route is FramesSpend.  *)
(***************************************************************************)
EXTENDS Naturals, FiniteSets

CONSTANTS
  Nets, FramesNets, StartNets, Paid0, Random, Coins, MaxKeys, MaxSelects,  \* of ClassicalSpend
  Anns, PaidRows, MaxOpens, Tries,                              \* of UserOpSpend
  Slots, MaxClicks, None                                        \* of both

VARIABLES
  route,  \* the route shown
  net, selects, page, fetches, stored, jobs, clicks, drawn, registry, log, funded, pool,
  hybrid, opPage, opJobs, opClicks, opens, opDrawn, opLog, bal, nonce, deployed, executed, opPool

C == INSTANCE ClassicalSpend

U == INSTANCE UserOpSpend WITH
       Paid0 <- PaidRows, page <- opPage, jobs <- opJobs, clicks <- opClicks,
       drawn <- opDrawn, log <- opLog, pool <- opPool

ASSUME TabAssumption ==
  /\ StartNets \cup Paid0 \subseteq Nets /\ IsFiniteSet(Nets)
  /\ PaidRows \subseteq Anns /\ IsFiniteSet(PaidRows)
  /\ {Slots, MaxKeys, Tries} \subseteq Nat /\ Tries > 0
  /\ None \notin C!JobType /\ None \notin U!JobType

classicalVars == <<net, selects, page, fetches, stored, jobs, clicks, drawn, registry, log, funded, pool>>
userOpVars == <<hybrid, opPage, opJobs, opClicks, opens, opDrawn, opLog, bal, nonce, deployed, executed, opPool>>
vars == <<route, classicalVars, userOpVars>>

(* hybrid says which network the PQ route is opened on; on one with frame     *)
(* transactions it is a page of FramesSpend.                                  *)
Init == /\ C!Init /\ U!Init
        /\ \/ route = "classical" /\ ~hybrid
           \/ route = "pq" /\ stored = None

Next == \/ route = "classical" /\ C!Next /\ UNCHANGED <<route, userOpVars>>
        \/ route = "pq" /\ U!Next /\ UNCHANGED <<route, classicalVars>>

Spec == Init /\ [][Next]_vars /\ U!Fairness
-----------------------------------------------------------------------------
TypeOK == C!TypeOK /\ U!TypeOK

(* The properties of the two routes, named for the run. *)
CompactResolves == C!CompactResolves
OneSpendPerRow == C!OneSpendPerRow
ResultExecuted == U!ResultExecuted
SpentMoved == U!SpentMoved
HandlersEnd == U!HandlersEnd
=============================================================================

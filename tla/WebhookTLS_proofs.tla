------------------------- MODULE WebhookTLS_proofs -------------------------
(***************************************************************************)
(* Theorems about the TLS provider, for every bound: the renewal goroutine *)
(* never panics, New leaves a pair that can be served, and the renewal of  *)
(* the key in use is always scheduled and not done early.  About the       *)
(* process around it: it runs the provider as specified, and nothing but   *)
(* approvers that have been prepared.                                      *)
(***************************************************************************)
EXTENDS Command, TLAPS

(* A channel with room for one holds nothing or one moment. *)

\* nextRenewCh without a moment has room, and with room is empty.
LEMMA Room ==
    ASSUME TypeOK
    PROVE  Len(renewCh) < 1 <=> renewCh = <<>>
  BY DEF TypeOK

\* A moment sent to an empty nextRenewCh is the one that is received next.
LEMMA SendOne ==
    ASSUME NEW n \in Nat
    PROVE  /\ Append(<<>>, n) = <<n>>
           /\ <<n>> \in Seq(Nat)
           /\ Len(<<n>>) <= 1
           /\ <<n>> # <<>>
           /\ Head(<<n>>) = n
  OBVIOUS

\* Receiving from nextRenewCh leaves it empty.
LEMMA ReceiveOne ==
    ASSUME TypeOK, renewCh # <<>>
    PROVE  /\ Head(renewCh) \in Nat
           /\ Tail(renewCh) = <<>>
  BY DEF TypeOK

-----------------------------------------------------------------------------
\* New begins with nothing written and nothing scheduled.
LEMMA Initially == Init => IInv
<1>1. /\ <<>> \in Seq(Nat) /\ Len(<<>>) <= 1
      /\ 0 \in Nat /\ 1 \in Nat
    OBVIOUS
<1>2. NoCertificate \in Certificate
    BY DEF NoCertificate, Certificate
<1>3. Init => renewCh \in Seq(Nat) /\ Len(renewCh) <= 1
    BY <1>1 DEF Init
<1>4. Init => TypeOK
    BY <1>1, <1>2, <1>3, Zenon DEF Init, TypeOK
<1> QED
    BY <1>4 DEF Init, IInv, NeverPanics, NewMeansServable, RenewalScheduled

\* Every step of the provider, of its authority and of the server keeps IInv.
LEMMA Step == IInv /\ [Next]_vars => IInv'
<1> SUFFICES ASSUME IInv, [Next]_vars
             PROVE  IInv'
    OBVIOUS
<1> USE DEF IInv, NeverPanics, NewMeansServable, RenewalScheduled, Pending
<1>0. <<>> \in Seq(Nat) /\ Len(<<>>) <= 1
    OBVIOUS
<1>1. CASE Poll
    BY <1>1 DEF Poll, TypeOK, Certificate, authorityVars, fileVars, renewerVars
<1>2. CASE PollDone
    BY <1>2 DEF PollDone, PollEnds, TypeOK, Certificate, authorityVars, fileVars,
                renewerVars
<1>3. CASE NewCall
    BY <1>3 DEF NewCall, TypeOK, Certificate, fileVars, renewerVars
<1>4. CASE Drain
    BY <1>4 DEF Drain, TypeOK, Certificate, fileVars, renewerVars
<1>5. CASE Start
  <2>1. key \in Nat /\ renewCh = <<key>>
      BY <1>5 DEF Start, TypeOK
  <2> QED
      BY <1>5, <2>1, SendOne, Zenon DEF Start, TypeOK, Certificate, authorityVars, fileVars
<1>6. CASE SelectAuthority
    BY <1>6 DEF SelectAuthority, Retry, PollEnds, TypeOK, Certificate, fileVars,
                renewerVars
<1>7. CASE SelectRotation
    BY <1>7, Zenon DEF SelectRotation, TypeOK, Certificate, fileVars, renewerVars
<1>8. CASE SelectRenewal
    BY <1>8 DEF SelectRenewal, TypeOK, Certificate, authorityVars, fileVars
<1>9. CASE SelectDone
    BY <1>9 DEF SelectDone, TypeOK, Certificate, authorityVars, fileVars,
                renewerVars
<1>10. CASE Sign
    BY <1>10 DEF Sign, TypeOK, Certificate, authorityVars, fileVars, renewerVars
<1>11. CASE WriteCrt
    BY <1>11 DEF WriteCrt, TypeOK, Certificate, authorityVars, renewerVars
<1>12. CASE WriteKey
    BY <1>12 DEF WriteKey, TypeOK, Certificate, authorityVars, renewerVars
<1>13. CASE SendMoment
  <2>1. signed.number \in Nat
      BY DEF TypeOK, Certificate
  <2>2. renewCh = <<>> /\ renewCh' = <<signed.number>>
      BY <1>13, <2>1, Room, SendOne, Zenon DEF SendMoment
  <2> QED
      BY <1>13, <2>1, <2>2, SendOne
         DEF SendMoment, Retry, PollEnds, TypeOK, Certificate, authorityVars,
             fileVars, renewerVars
<1>14. CASE Fail
    BY <1>14 DEF Fail, Retry, PollEnds, TypeOK, Certificate, NoCertificate,
                 authorityVars, renewerVars
<1>15. CASE FirstMoment
  <2>1. /\ renewCh # <<>>
        /\ renewer' = "timer"
        /\ moment' = Head(renewCh)
        /\ renewCh' = Tail(renewCh)
      BY <1>15 DEF FirstMoment
  <2> QED
      BY <1>0, <1>15, <2>1, ReceiveOne
         DEF FirstMoment, TypeOK, Certificate, authorityVars, fileVars
<1>16. CASE NewMoment
    BY <1>0, <1>16, ReceiveOne
       DEF NewMoment, TypeOK, Certificate, authorityVars, fileVars
<1>17. CASE TimerFires
    BY <1>17 DEF TimerFires, TypeOK, Certificate, authorityVars, fileVars
<1>18. CASE RenewerEnds
    BY <1>18 DEF RenewerEnds, TypeOK, Certificate, authorityVars, fileVars
<1>19. CASE Rotate
    BY <1>19 DEF Rotate, TypeOK, Certificate, fileVars, renewerVars
<1>20. CASE AuthorityFails
    BY <1>20 DEF AuthorityFails, TypeOK, Certificate, fileVars, renewerVars
<1>21. CASE AuthorityStops
    BY <1>21 DEF AuthorityStops, TypeOK, Certificate, fileVars, renewerVars
<1>22. CASE Load
    BY <1>22 DEF Load, TypeOK, Certificate, authorityVars, fileVars, renewerVars
<1>23. CASE MomentPasses
    BY <1>23 DEF MomentPasses, TypeOK, Certificate, authorityVars, fileVars,
                 renewerVars
<1>24. CASE Stop
    BY <1>24 DEF Stop, TypeOK, Certificate, authorityVars, fileVars, renewerVars
<1>25. CASE Restart
  <2>1. NoCertificate \in Certificate
      BY DEF NoCertificate, Certificate
  <2>2. failures' \in Nat /\ moment' \in Nat
      BY <1>25 DEF Restart, TypeOK
  <2>3. renewCh' \in Seq(Nat) /\ Len(renewCh') <= 1
      BY <1>0, <1>25 DEF Restart
  <2>4. TypeOK'
      BY <1>25, <2>1, <2>2, <2>3, Zenon DEF Restart, TypeOK, fileVars
  <2> QED
      BY <1>25, <2>4 DEF Restart
<1>26. CASE UNCHANGED vars
    BY <1>26 DEF vars, TypeOK, Certificate, authorityVars, fileVars, renewerVars
<1> QED
    BY <1>1, <1>2, <1>3, <1>4, <1>5, <1>6, <1>7, <1>8, <1>9, <1>10, <1>11,
       <1>12, <1>13, <1>14, <1>15, <1>16, <1>17, <1>18, <1>19, <1>20, <1>21,
       <1>22, <1>23, <1>24, <1>25, <1>26, Zenon
       DEF Next, Bootstrap, Select, Regenerate, Renewer, Environment

\* What the provider knows of its own start-up, files and channel is invariant.
THEOREM Invariance == Spec => []IInv
  BY Initially, Step, PTL DEF Spec

\* Every variable keeps its type, nextRenewCh its capacity.
THEOREM TypeCorrect == Spec => []TypeOK
<1>1. IInv => TypeOK
    BY DEF IInv
<1> QED
    BY <1>1, Invariance, PTL

\* The case of the renewal goroutine marked "This should never happen" does not.
THEOREM PanicUnreachable == Spec => []NeverPanics
<1>1. IInv => NeverPanics
    BY DEF IInv
<1> QED
    BY <1>1, Invariance, PTL

\* New returns with matching files of the newest pair and its renewal scheduled,
\* after any failures and restarts.
THEOREM NewIsServable == Spec => []NewMeansServable
<1>1. IInv => NewMeansServable
    BY DEF IInv
<1> QED
    BY <1>1, Invariance, PTL

\* No interleaving of rotations, renewals and failures loses the renewal of the
\* key in use.
THEOREM RenewalIsScheduled == Spec => []RenewalScheduled
<1>1. IInv => RenewalScheduled
    BY DEF IInv
<1> QED
    BY <1>1, Invariance, PTL

\* The loop renews a key whose moment has not passed only for a message that was
\* offered for the key before, or after the renewal goroutine has ended.
THEOREM RenewalsAreDue == Spec => RenewsOnlyWhenDue
<1>1. IInv /\ SelectRenewal
          => key <= passed \/ renewCh # <<>> \/ renewer = "ended"
  <2> SUFFICES ASSUME IInv, SelectRenewal, renewCh = <<>>, renewer # "ended"
               PROVE  key <= passed
      OBVIOUS
  <2>1. renewer = "offer" /\ main = "call"
      BY DEF SelectRenewal
  <2>2. moment <= passed
      BY <2>1 DEF IInv
  <2>3. CASE key = 0
      BY <2>3 DEF IInv, TypeOK
  <2>4. CASE key # 0
      BY <2>1, <2>2, <2>4 DEF IInv, RenewalScheduled, Pending
  <2> QED
      BY <2>3, <2>4
<1>2. IInv /\ [Next]_vars =>
          [SelectRenewal => key <= passed \/ renewCh # <<>> \/ renewer = "ended"]_vars
    BY <1>1
<1> QED
    BY <1>2, Invariance, PTL DEF Spec, RenewsOnlyWhenDue

-----------------------------------------------------------------------------
\* Each step of the process is a step of the provider or none of it.
LEMMA ProviderStep == [CommandNext]_allVars => [Next]_vars
<1> USE DEF Next
<1>1. ASSUME StartUp \/ StartUpFails \/ Elected \/ Exit PROVE UNCHANGED vars
    BY <1>1 DEF StartUp, StoreNext, BuildManager, Register, PrepareApprover,
        StartManager, NewFails, StartUpFails, Elected, Exit
<1>2. StartProvider \/ RestartProcess => Next
    BY DEF StartProvider, RestartProcess, Bootstrap, Environment
<1>3. Alive /\ (Loop \/ Fail \/ Renewer) => Next
    BY DEF Loop, Bootstrap, Regenerate
<1>4. Alive /\ (Rotate \/ AuthorityFails \/ AuthorityStops \/ MomentPasses) => Next
    BY DEF Environment
<1>5. command # "exited" /\ Stop /\ UNCHANGED commandVars => Next
    BY DEF Environment
<1>6. UNCHANGED allVars => UNCHANGED vars
    BY DEF allVars
<1> QED
    BY <1>1, <1>2, <1>3, <1>4, <1>5, <1>6, Zenon DEF CommandNext

\* The process runs the provider as WebhookTLS specifies it, so that whatever
\* holds of the provider by itself holds of it in the process.
THEOREM ProviderInProcess == CommandSpec => Spec
<1>1. CommandInit => Init
    BY DEF CommandInit
<1> QED
    BY <1>1, ProviderStep, PTL DEF CommandSpec, Spec
=============================================================================

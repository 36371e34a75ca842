----------------------------- MODULE WebhookTLS -----------------------------
(***************************************************************************)
(* The TLS provider of the webhook (pkg/internal/webhook/tls/tls.go).      *)
(*                                                                         *)
(* New runs the certificate authority in a goroutine and signs a first     *)
(* serving certificate.  Start runs the renewal goroutine and a loop that  *)
(* signs another one when the CA is rotated or a renewal is due.  They     *)
(* meet in three channels: nextRenewCh with room for one moment, and       *)
(* renewalChan and authorityErrChan without room.  The webhook server      *)
(* (external) watches the two files the provider writes.                   *)
(*                                                                         *)
(* A certificate is known by its number.  Leaf certificates all live       *)
(* equally long, so the moments at which they are to be renewed come in    *)
(* the order of the numbers, and the clock is the number of moments that   *)
(* have passed.                                                            *)
(***************************************************************************)
EXTENDS Naturals, Sequences

CONSTANTS
    MaxRotations, \* bound: rotations of the CA
    MaxMoments,   \* bound: renewal moments that pass
    MaxFailures   \* bound: errors of Sign, of os.WriteFile and of the authority,
                  \* and restarts

ASSUME BoundsAssumption ==
    /\ MaxRotations \in Nat
    /\ MaxMoments \in Nat
    /\ MaxFailures \in Nat

VARIABLES
    ca,        \* authority: the number of the CA that Sign uses
    authority, \* authorityErrChan: Run goes on, has a result to send, or closed
    rotation,  \* rotationChan: a rotation waits to be received
    stop,      \* ctx.Done() is closed
    passed,    \* clock: the renewal moments up to this number have passed
    main,      \* New and Start: where the caller's goroutine is
    started,   \* Start has been called
    last,      \* the poll has seen ctx.Done(), the current call is the last
    signed,    \* the last certificate that Sign returned
    crt,       \* tls.crt
    key,       \* tls.key: the number of the certificate the key belongs to
    renewCh,   \* nextRenewCh
    renewer,   \* renewal goroutine: where it is
    moment,    \* renewal goroutine: renewMoment
    served,    \* webhook server: the pair it loaded last
    failures   \* errors and restarts so far

authorityVars == <<ca, authority, rotation>>
fileVars == <<crt, key>>
renewerVars == <<renewer, moment>>
vars == <<authorityVars, stop, passed, main, started, last, signed, fileVars,
          renewCh, renewerVars, served, failures>>

-----------------------------------------------------------------------------
Certificate == [number : Nat, ca : Nat]

\* No certificate, or the content of a file that was truncated; number 0 is
\* also the key of no certificate.
NoCertificate == [number |-> 0, ca |-> 0]

\* Every variable has its type; nextRenewCh never holds more than one moment.
TypeOK ==
    /\ ca \in Nat
    /\ authority \in {"running", "error", "nil", "closed"}
    /\ rotation \in BOOLEAN
    /\ stop \in BOOLEAN
    /\ passed \in Nat
    /\ main \in {"wait", "call", "sign", "crt", "key", "send", "built", "drain",
                 "returned", "failed"}
    /\ started \in BOOLEAN
    /\ last \in BOOLEAN
    /\ signed \in Certificate
    /\ crt \in Certificate
    /\ key \in Nat
    /\ renewCh \in Seq(Nat) /\ Len(renewCh) <= 1
    /\ renewer \in {"off", "first", "timer", "offer", "ended", "panic"}
    /\ moment \in Nat
    /\ served \in Certificate
    /\ failures \in Nat

\* New has been called in a fresh pod: the directory of the files is empty.
Init ==
    /\ ca = 1
    /\ authority = "running"
    /\ rotation = FALSE
    /\ stop = FALSE
    /\ passed = 0
    /\ main = "wait"
    /\ started = FALSE
    /\ last = FALSE
    /\ signed = NoCertificate
    /\ crt = NoCertificate
    /\ key = 0
    /\ renewCh = <<>>
    /\ renewer = "off"
    /\ moment = 0
    /\ served = NoCertificate
    /\ failures = 0

-----------------------------------------------------------------------------
(* The two polls, of New (every second) and of Start (at once, then every  *)
(* ten seconds).  A poll whose context is done may make one more call.     *)

\* New hands its error on after it has waited for the authority.
PollEnds == IF started THEN "returned" ELSE "drain"

\* Altered: the function that New polls returns the error.
GiveUp == IF last \/ ~started THEN PollEnds ELSE "wait"

\* The called function has returned false, nil.
Retry == IF last THEN PollEnds ELSE "wait"

Poll ==
    /\ main = "wait"
    /\ main' = "call"
    /\ last' = stop
    /\ UNCHANGED <<authorityVars, stop, passed, started, signed, fileVars,
                   renewCh, renewerVars, served, failures>>

PollDone ==
    /\ main = "wait"
    /\ stop
    /\ main' = PollEnds
    /\ UNCHANGED <<authorityVars, stop, passed, started, last, signed, fileVars,
                   renewCh, renewerVars, served, failures>>

\* The function that New polls: an error of the authority, or its end, is
\* final; while it runs, or if it has just returned nil, a certificate is
\* requested.
NewCall ==
    /\ main = "call"
    /\ ~started
    /\ main' = IF authority \in {"error", "closed"} THEN "drain" ELSE "sign"
    /\ authority' = IF authority = "running" THEN "running" ELSE "closed"
    /\ UNCHANGED <<ca, rotation, stop, passed, started, last, signed, fileVars,
                   renewCh, renewerVars, served, failures>>

\* Altered: authorityErrChan is not closed after the result was received.
DrainUnclosed ==
    /\ main = "drain"
    /\ authority \in {"error", "nil"}
    /\ main' = "failed"
    /\ authority' = "closed"
    /\ UNCHANGED <<ca, rotation, stop, passed, started, last, signed, fileVars,
                   renewCh, renewerVars, served, failures>>

\* New: <-t.authorityErrChan on the way out.
Drain ==
    /\ main = "drain"
    /\ authority # "running"
    /\ main' = "failed"
    /\ authority' = "closed"
    /\ UNCHANGED <<ca, rotation, stop, passed, started, last, signed, fileVars,
                   renewCh, renewerVars, served, failures>>

\* Start: the renewal goroutine begins, rotations are watched from now on, and
\* the first call of the poll is made at once.
Start ==
    /\ main = "built"
    /\ main' = "call"
    /\ started' = TRUE
    /\ last' = FALSE
    /\ renewer' = "first"
    /\ UNCHANGED <<authorityVars, stop, passed, signed, fileVars, renewCh,
                   moment, served, failures>>

(* The cases of the select in the function that Start polls. *)

\* Altered: an error of the authority is logged.
SelectAuthorityLogged ==
    /\ main = "call"
    /\ started
    /\ authority # "running"
    /\ main' = Retry
    /\ authority' = "closed"
    /\ UNCHANGED <<ca, rotation, stop, passed, started, last, signed, fileVars,
                   renewCh, renewerVars, served, failures>>

SelectAuthority ==
    /\ main = "call"
    /\ started
    /\ authority # "running"
    /\ main' = IF authority = "nil" THEN Retry ELSE "returned"
    /\ authority' = "closed"
    /\ UNCHANGED <<ca, rotation, stop, passed, started, last, signed, fileVars,
                   renewCh, renewerVars, served, failures>>

SelectRotation ==
    /\ main = "call"
    /\ started
    /\ rotation
    /\ rotation' = FALSE
    /\ main' = "sign"
    /\ UNCHANGED <<ca, authority, stop, passed, started, last, signed, fileVars,
                   renewCh, renewerVars, served, failures>>

\* The renewal goroutine is sending, or has ended and closed the channel.
SelectRenewal ==
    /\ main = "call"
    /\ started
    /\ renewer \in {"offer", "ended"}
    /\ main' = "sign"
    /\ renewer' = IF renewer = "offer" THEN "timer" ELSE "ended"
    /\ UNCHANGED <<authorityVars, stop, passed, started, last, signed, fileVars,
                   renewCh, moment, served, failures>>

\* ctx.Done(), or the rotation channel, which is closed with it.
SelectDone ==
    /\ main = "call"
    /\ started
    /\ stop
    /\ main' = "returned"
    /\ UNCHANGED <<authorityVars, stop, passed, started, last, signed, fileVars,
                   renewCh, renewerVars, served, failures>>

-----------------------------------------------------------------------------
(* regenerateCertificate and updateCertificate. *)

Sign ==
    /\ main = "sign"
    /\ main' = "crt"
    /\ signed' = [number |-> signed.number + 1, ca |-> ca]
    /\ UNCHANGED <<authorityVars, stop, passed, started, last, fileVars,
                   renewCh, renewerVars, served, failures>>

WriteCrt ==
    /\ main = "crt"
    /\ main' = "key"
    /\ crt' = signed
    /\ UNCHANGED <<authorityVars, stop, passed, started, last, signed, key,
                   renewCh, renewerVars, served, failures>>

WriteKey ==
    /\ main = "key"
    /\ main' = "send"
    /\ key' = signed.number
    /\ UNCHANGED <<authorityVars, stop, passed, started, last, signed, crt,
                   renewCh, renewerVars, served, failures>>

\* Altered: the moment is sent although there is no room for it.
SendUnbounded ==
    /\ main = "send"
    /\ renewCh' = Append(renewCh, signed.number)
    /\ main' = IF started THEN Retry ELSE "built"
    /\ UNCHANGED <<authorityVars, stop, passed, started, last, signed, fileVars,
                   renewerVars, served, failures>>

\* Altered: a moment that finds no room is dropped.
SendOrDrop ==
    /\ main = "send"
    /\ renewCh' = IF renewCh = <<>> THEN <<signed.number>> ELSE renewCh
    /\ main' = IF started THEN Retry ELSE "built"
    /\ UNCHANGED <<authorityVars, stop, passed, started, last, signed, fileVars,
                   renewerVars, served, failures>>

\* Altered: New leaves it to Start to schedule the first renewal.
SendFromStart ==
    /\ main = "send"
    /\ Len(renewCh) < 1
    /\ renewCh' = IF started THEN Append(renewCh, signed.number) ELSE renewCh
    /\ main' = IF started THEN Retry ELSE "built"
    /\ UNCHANGED <<authorityVars, stop, passed, started, last, signed, fileVars,
                   renewerVars, served, failures>>

\* nextRenew <- ... waits for room, holding the lock.
SendMoment ==
    /\ main = "send"
    /\ Len(renewCh) < 1
    /\ renewCh' = Append(renewCh, signed.number)
    /\ main' = IF started THEN Retry ELSE "built"
    /\ UNCHANGED <<authorityVars, stop, passed, started, last, signed, fileVars,
                   renewerVars, served, failures>>

\* Altered: the error of the second write is not looked at.
FailIgnored ==
    /\ failures < MaxFailures
    /\ failures' = failures + 1
    /\ main \in {"sign", "crt", "key"}
    /\ main' = IF main = "key" THEN "send" ELSE Retry
    /\ crt' \in {crt} \cup {NoCertificate : x \in {main} \cap {"crt"}}
    /\ key' \in {key} \cup {0 : x \in {main} \cap {"key"}}
    /\ UNCHANGED <<authorityVars, stop, passed, started, last, signed, renewCh,
                   renewerVars, served>>

\* Sign or one of the writes fails; a write may have truncated its file.
Fail ==
    /\ failures < MaxFailures
    /\ failures' = failures + 1
    /\ main \in {"sign", "crt", "key"}
    /\ main' = Retry
    /\ crt' \in {crt} \cup {NoCertificate : x \in {main} \cap {"crt"}}
    /\ key' \in {key} \cup {0 : x \in {main} \cap {"key"}}
    /\ UNCHANGED <<authorityVars, stop, passed, started, last, signed, renewCh,
                   renewerVars, served>>

-----------------------------------------------------------------------------
(* The renewal goroutine. *)

\* The first moment is there, or the goroutine panics.
FirstMoment ==
    /\ renewer = "first"
    /\ IF renewCh = <<>>
       THEN renewer' = "panic" /\ UNCHANGED <<moment, renewCh>>
       ELSE renewer' = "timer" /\ moment' = Head(renewCh) /\ renewCh' = Tail(renewCh)
    /\ UNCHANGED <<authorityVars, stop, passed, main, started, last, signed,
                   fileVars, served, failures>>

\* Altered: no new moment is taken while a message is being sent.
NewMomentOnTimer ==
    /\ renewer = "timer"
    /\ moment > passed
    /\ renewCh # <<>>
    /\ moment' = Head(renewCh)
    /\ renewCh' = Tail(renewCh)
    /\ UNCHANGED <<authorityVars, stop, passed, main, started, last, signed,
                   fileVars, renewer, served, failures>>

\* In either select.
NewMoment ==
    /\ renewer \in {"timer", "offer"}
    /\ renewCh # <<>>
    /\ renewer' = "timer"
    /\ moment' = Head(renewCh)
    /\ renewCh' = Tail(renewCh)
    /\ UNCHANGED <<authorityVars, stop, passed, main, started, last, signed,
                   fileVars, served, failures>>

\* Altered: the message is offered without waiting for the moment.
TimerFiresAtOnce ==
    /\ renewer = "timer"
    /\ renewer' = "offer"
    /\ UNCHANGED <<authorityVars, stop, passed, main, started, last, signed,
                   fileVars, renewCh, moment, served, failures>>

TimerFires ==
    /\ renewer = "timer"
    /\ moment <= passed
    /\ renewer' = "offer"
    /\ UNCHANGED <<authorityVars, stop, passed, main, started, last, signed,
                   fileVars, renewCh, moment, served, failures>>

RenewerEnds ==
    /\ renewer \in {"timer", "offer"}
    /\ stop
    /\ renewer' = "ended"
    /\ UNCHANGED <<authorityVars, stop, passed, main, started, last, signed,
                   fileVars, renewCh, moment, served, failures>>

-----------------------------------------------------------------------------
(* External: the authority, the webhook server's certificate watcher, the  *)
(* clock, and the end of the process.                                      *)

\* The CA changes.  Who watches is told, by a channel with room for one.
Rotate ==
    /\ ca <= MaxRotations
    /\ authority = "running"
    /\ ca' = ca + 1
    /\ rotation' = started
    /\ UNCHANGED <<authority, stop, passed, main, started, last, signed,
                   fileVars, renewCh, renewerVars, served, failures>>

\* Run returns an error; with its context done it may also return nil.
AuthorityFails ==
    /\ authority = "running"
    /\ failures < MaxFailures
    /\ failures' = failures + 1
    /\ authority' = "error"
    /\ UNCHANGED <<ca, rotation, stop, passed, main, started, last, signed,
                   fileVars, renewCh, renewerVars, served>>

AuthorityStops ==
    /\ authority = "running"
    /\ stop
    /\ authority' \in {"error", "nil"}
    /\ UNCHANGED <<ca, rotation, stop, passed, main, started, last, signed,
                   fileVars, renewCh, renewerVars, served, failures>>

\* The server runs once New has returned.  Its watcher keeps the pair it has
\* when the files do not match or are empty.
Load ==
    /\ started \/ main = "built"
    /\ crt.number = key
    /\ key # 0
    /\ key # served.number
    /\ served' = crt
    /\ UNCHANGED <<authorityVars, stop, passed, main, started, last, signed,
                   fileVars, renewCh, renewerVars, failures>>

MomentPasses ==
    /\ passed < MaxMoments
    /\ passed < signed.number
    /\ passed' = passed + 1
    /\ UNCHANGED <<authorityVars, stop, main, started, last, signed, fileVars,
                   renewCh, renewerVars, served, failures>>

Stop ==
    /\ ~stop
    /\ stop' = TRUE
    /\ UNCHANGED <<authorityVars, passed, main, started, last, signed, fileVars,
                   renewCh, renewerVars, served, failures>>

\* The process ends, at any point, and is started again in the same pod, whose
\* volume keeps the files.
Restart ==
    /\ failures < MaxFailures
    /\ failures' = failures + 1
    /\ authority' = "running"
    /\ rotation' = FALSE
    /\ stop' = FALSE
    /\ main' = "wait"
    /\ started' = FALSE
    /\ last' = FALSE
    /\ renewCh' = <<>>
    /\ renewer' = "off"
    /\ moment' = 0
    /\ served' = NoCertificate
    /\ UNCHANGED <<ca, passed, signed, fileVars>>

-----------------------------------------------------------------------------
Bootstrap == Poll \/ PollDone \/ NewCall \/ Drain \/ Start
Select == SelectAuthority \/ SelectRotation \/ SelectRenewal \/ SelectDone
Regenerate == Sign \/ WriteCrt \/ WriteKey \/ SendMoment \/ Fail
Renewer == FirstMoment \/ NewMoment \/ TimerFires \/ RenewerEnds
Environment == \/ Rotate \/ AuthorityFails \/ AuthorityStops
               \/ Load \/ MomentPasses \/ Stop \/ Restart

Next == Bootstrap \/ Select \/ Regenerate \/ Renewer \/ Environment

Spec == Init /\ [][Next]_vars

-----------------------------------------------------------------------------
(* Properties. *)

\* The default case of the renewal goroutine's first select, "This should never
\* happen", does not: New returns only after it has left a moment in the
\* channel, and nobody else takes it.
NeverPanics == renewer # "panic"

\* When New returns, the files are the newest pair and its renewal is in the
\* channel, whatever attempts failed before and whatever an earlier process
\* that ended between the two writes has left behind.
NewMeansServable ==
    main = "built" => /\ crt = signed
                      /\ key = signed.number
                      /\ renewCh = <<key>>

\* The moment the renewal goroutine waits for, or will take next.
Pending == IF renewCh = <<>> THEN moment ELSE Head(renewCh)

\* The renewal of the key in use is never forgotten: the renewal goroutine waits
\* for its moment or will find it in the channel.  No order of rotations,
\* renewals and failures leaves it with the moment of another certificate.
RenewalScheduled ==
    renewer \in {"first", "timer", "offer"} /\ main # "send" /\ key # 0
        => key = Pending

\* "trigger regeneration if a renewal is required": the loop takes a message of
\* the renewal goroutine only when the moment of the key has passed.  The two
\* exceptions are races that the code has: the message was offered before the
\* loop replaced the key, whose moment is still in the channel, or the goroutine
\* has ended, and its closed channel looks like a message.
RenewsOnlyWhenDue ==
    [][SelectRenewal => key <= passed \/ renewCh # <<>> \/ renewer = "ended"]_vars

\* Why the properties above hold, in a form that each step keeps: who has been
\* where in the start-up, and which pair the provider has written how far.
IInv ==
    /\ TypeOK
    /\ NeverPanics
    /\ started <=> renewer # "off"
    /\ main = "built" => ~started
    /\ ~started /\ main # "built" => renewCh = <<>>
    /\ renewer = "first" => renewCh # <<>>
    /\ main \in {"key", "send"} => crt = signed
    /\ main = "send" => key = signed.number
    /\ renewer = "offer" => moment <= passed
    /\ NewMeansServable
    /\ RenewalScheduled

\* The loop waits and nothing is on its way to it, nor to the server.
Quiet ==
    /\ started /\ ~stop /\ authority = "running"
    /\ main = "call" /\ ~rotation
    /\ renewer = "timer" /\ renewCh = <<>> /\ moment > passed
    /\ served.number = key

\* "Start will start the TLS provider which ensures that the webhook server
\* always has a valid certificate and key for the current serving CA": at the
\* latest when there is nothing left to do.
ServesCurrentCA == Quiet => served.ca = ca
=============================================================================

------------------------------ MODULE Command -------------------------------
(***************************************************************************)
(* The process of one replica (pkg/internal/cmd/cmd.go): approvers         *)
(* register themselves, the command builds the manager, sets up the        *)
(* webhook, prepares the approvers, adds the controllers and starts the    *)
(* manager, which runs the webhook server, the TLS provider and, once this *)
(* replica leads, the controllers.                                         *)
(*                                                                         *)
(* Composed with WebhookTLS: tls.New is called by webhook.Register, Start  *)
(* by the manager.  The authority runs from the first on, and approvers    *)
(* may take their time in between.                                         *)
(***************************************************************************)
EXTENDS WebhookTLS

CONSTANTS
    PluginName, \* the names that the approvers of a third package may have
    Plugins     \* how many it stores in its call of Store

VARIABLES
    inits,     \* the number of init functions that have run
    approvers, \* registry.Shared: the names, in the order of registration
    command,   \* the main goroutine: where it is
    prepared,  \* the number of approvers whose Prepare has returned nil
    decoder,   \* validator: the decoder has been injected
    leader     \* this replica holds the lease

commandVars == <<inits, approvers, command, prepared, decoder, leader>>
allVars == <<vars, commandVars>>

\* tls.New has not been called yet: its variables are those of its beginning.
CommandInit ==
    /\ Init
    /\ inits = 0
    /\ approvers = <<>>
    /\ command = "init"
    /\ prepared = 0
    /\ decoder = FALSE
    /\ leader = FALSE

-----------------------------------------------------------------------------
(* Start-up. *)

\* What the init functions store, in the order of the imports.
Imports == <<{<<"allowed">>}, {<<"constraints">>}, [1 .. Plugins -> PluginName]>>

\* Registry.Store: a name that is registered is a panic.  The new ones are not
\* compared with each other.
Store(toStore) ==
    IF \E j \in 1 .. Len(approvers), k \in 1 .. Len(toStore) : approvers[j] = toStore[k]
    THEN command' = "exited" /\ UNCHANGED approvers
    ELSE approvers' = approvers \o toStore /\ UNCHANGED command

\* The next init function stores its approvers.
StoreNext ==
    /\ command = "init"
    /\ inits < Len(Imports)
    /\ inits' = inits + 1
    /\ \E toStore \in Imports[inits + 1] : Store(toStore)
    /\ UNCHANGED <<vars, prepared, decoder, leader>>

\* Options.Complete and NewManager: nothing runs yet.
BuildManager ==
    /\ command = "init"
    /\ inits = Len(Imports)
    /\ command' = "register"
    /\ UNCHANGED <<vars, inits, approvers, prepared, decoder, leader>>

\* validator.InjectDecoder, called by the webhook server.
InjectDecoder == decoder' = TRUE

\* The readiness check of the validator.
check == decoder

\* webhook.Register when tls.New has returned: the provider is added to the
\* manager, whose server takes the validator and injects the decoder.
Register ==
    /\ command = "register"
    /\ main = "built"
    /\ command' = "prepare"
    /\ InjectDecoder
    /\ UNCHANGED <<vars, inits, approvers, prepared, leader>>

PrepareApprover ==
    /\ command = "prepare"
    /\ prepared < Len(approvers)
    /\ prepared' = prepared + 1
    /\ UNCHANGED <<vars, inits, approvers, command, decoder, leader>>

\* AddControllers and mgr.Start.
StartManager ==
    /\ command = "prepare"
    /\ prepared = Len(approvers)
    /\ command' = "running"
    /\ UNCHANGED <<vars, inits, approvers, prepared, decoder, leader>>

\* Any of the calls above returns an error, which ends the process.
StartUpFails ==
    /\ \/ command = "init" /\ inits = Len(Imports)
       \/ command = "register" /\ main = "built"
       \/ command = "prepare"
    /\ command' = "exited"
    /\ UNCHANGED <<vars, inits, approvers, prepared, decoder, leader>>

\* tls.New returns its error.
NewFails ==
    /\ command = "register"
    /\ main = "failed"
    /\ command' = "exited"
    /\ UNCHANGED <<vars, inits, approvers, prepared, decoder, leader>>

-----------------------------------------------------------------------------
(* The manager runs. *)

\* Altered: the provider waits for the lease.
NeedsLeader == TRUE

\* "regardless of whether they are leader or not"
NeedLeaderElection == FALSE

\* The manager calls Start of the TLS provider.
StartProvider ==
    /\ command = "running"
    /\ NeedLeaderElection => leader
    /\ Start
    /\ UNCHANGED commandVars

\* The manager acquires the lease, and the controllers start.
Elected ==
    /\ command = "running"
    /\ ~leader
    /\ leader' = TRUE
    /\ UNCHANGED <<vars, inits, approvers, command, prepared, decoder>>

\* mgr.Start returns because the provider has, always with an error.
Exit ==
    /\ command = "running"
    /\ main = "returned"
    /\ command' = "exited"
    /\ leader' = FALSE
    /\ UNCHANGED <<vars, inits, approvers, prepared, decoder>>

\* The process ends, at any point: it crashes, the lease is lost, or the grace
\* period is over that the manager, told to stop, grants to what it runs.  Or it
\* has ended.  It is started again.
RestartProcess ==
    /\ Restart
    /\ inits' = 0
    /\ approvers' = <<>>
    /\ command' = "init"
    /\ prepared' = 0
    /\ decoder' = FALSE
    /\ leader' = FALSE

-----------------------------------------------------------------------------
(* The provider's own steps, from the call of New until the process ends.  *)
(* The server that reads its files does not act upon it and is left out.   *)

Alive == command \in {"register", "prepare", "running"} /\ UNCHANGED commandVars

Loop == \/ Poll \/ PollDone \/ NewCall \/ Drain \/ Select
        \/ Sign \/ WriteCrt \/ WriteKey \/ SendMoment

StartUp == \/ StoreNext \/ BuildManager \/ Register
           \/ PrepareApprover \/ StartManager \/ NewFails

CommandNext ==
    \/ StartUp \/ StartUpFails
    \/ StartProvider \/ Elected \/ Exit \/ RestartProcess
    \/ Alive /\ (Loop \/ Fail \/ Renewer)
    \/ Alive /\ (Rotate \/ AuthorityFails \/ AuthorityStops \/ MomentPasses)
    \/ command # "exited" /\ Stop /\ UNCHANGED commandVars

CommandSpec == CommandInit /\ [][CommandNext]_allVars

\* Every goroutine runs on while it can, and Prepare returns.  A select takes
\* one of its ready cases at random, so none is passed over for ever.  The
\* authority's Run returns once its context is done.  Nothing is assumed of
\* failures, rotations, restarts, the clock, leadership and the end of the process.
FairCommandSpec ==
    /\ CommandSpec
    /\ WF_allVars(StartUp) /\ WF_allVars(StartProvider) /\ WF_allVars(Exit)
    /\ WF_allVars(Alive /\ Loop)
    /\ SF_allVars(Alive /\ SelectAuthority)
    /\ SF_allVars(Alive /\ SelectRenewal)
    /\ WF_allVars(Alive /\ FirstMoment)
    /\ SF_allVars(Alive /\ NewMoment)
    /\ WF_allVars(Alive /\ TimerFires)
    /\ WF_allVars(Alive /\ RenewerEnds)
    /\ WF_allVars(Alive /\ AuthorityStops)

-----------------------------------------------------------------------------
(* Properties. *)

\* RunE: no start-up hangs.  Whatever becomes of the authority, of the writes and
\* of the context while New polls, waits for the authority and sends the first
\* moment, and whatever names are registered, the process ends or it comes to run
\* and says that it is ready.
StartUpEnds ==
    command \in {"init", "register", "prepare"}
        ~> command = "exited" \/ (command = "running" /\ check)

\* "All webhook TLS providers need to keep their respective key and certificate
\* up-to-date, regardless of whether they are leader or not": a key whose moment
\* has passed, be it while approvers were being prepared, is replaced, although
\* any attempt may fail, until the provider ends.
RenewedWhenDue ==
    \A n \in 1 .. MaxMoments :
        command = "running" /\ key = n /\ passed >= n
            ~> key > n \/ stop \/ authority # "running" \/ command # "running"

\* updateCertificate does not wait for room in nextRenewCh for ever: while the
\* provider runs, the renewal goroutine always takes the moment before.
SendCompletes == main = "send" ~> main # "send" \/ stop \/ command = "exited"

\* "if the authority has stopped for whatever reason, exit and return the error":
\* the end of the authority ends the process, also when it comes between New,
\* which no longer listens, and Start, which does not listen yet.
AuthorityEndEndsProcess ==
    authority # "running" ~> command = "exited" \/ stop \/ authority = "running"

\* When the context is done the process ends without help of the grace period,
\* unless the loop waits for room in nextRenewCh after the renewal goroutine,
\* its reader, has ended.
StopsUnlessSendBlocks ==
    stop ~> \/ command = "exited"
            \/ main = "send" /\ renewCh # <<>> /\ renewer = "ended"
            \/ ~stop
=============================================================================

------------------------------ MODULE MCModel ------------------------------
(***************************************************************************)
(* The components on the way between a session and the services it talks   *)
(* to, and those of the Hub and the manager that give it a process and a   *)
(* place, one at a time: a behaviour is that of one of them (part), and    *)
(* the variables of the others stand still (at 0, or in their initial      *)
(* state).                                                                 *)
(***************************************************************************)
EXTENDS SseFraming, ModelExchange, ResponsesStream, ChatStream, Conversation,
        ContextStatistic, PromptTemplate, SessionJson, IoClient, RemoteCall,
        Allocations, Supervisor, WireCodec

VARIABLE part

(* Instances. *)

MCItemShapes ==
    {[type |-> "message", chan |-> "text", lens |-> <<1, 1>>],
     [type |-> "reasoning", chan |-> "summary", lens |-> <<1>>],
     [type |-> "function_call", chan |-> "arguments", lens |-> <<2>>]}

MCUserParts == {Part("text", "text"), Part("image", "external_ref"), Part("document", "binary")}
MCToolParts == {Part("text", "text"), Part("image", "external_ref")}

MCCosts == {[prompt |-> 2, generated |-> 1, cache_hit |-> 1],
            [prompt |-> 1, generated |-> 0, cache_hit |-> 2],
            [prompt |-> 3, generated |-> 3, cache_hit |-> 0]}

MCTexts == {<<>>, <<"x">>, <<"/", "x", " ">>, <<"x", " ", "/", "x", "/">>}

(* Sessions: one that leaves every optional member out, and for each member *)
(* at least one that states it.                                             *)
InputFile == Obj("type" :> Str("input_file"))
Content(type, modality, extras) ==
    [type |-> type, raw |-> "x", extras |-> extras, modality |-> modality]
Query == [type |-> "serial_write", security |-> "trusted", id |-> "c1", name |-> "t",
          arguments |-> Obj(<<>>), extras |-> Unset]
Return == [query |-> Query, output |-> Content("text", "text", Unset), extras |-> Unset]
Said(parts) == [NewMessage EXCEPT !.type = "model_response", !.role = "assistant",
                                  !.content = parts]
Returned == [NewMessage EXCEPT !.type = "invoke_return", !.invoke_return = <<Return>>]
SomeMessages ==
    {Said(<<c>>) : c \in {Content("text", "text", Unset), Content("external_ref", "image", Unset),
                          Content("external_ref", "document", <<InputFile>>),
                          Content("binary", "audio", Unset)}}
    \cup {[Said(<<>>) EXCEPT !.invokes = i] : i \in {<< <<>> >>, << <<Query>> >>}}
    \cup {[Said(<<>>) EXCEPT !.reasoning = <<Content("text", "text", Unset)>>,
                             !.action_status = <<Content("text", "text", Unset)>>,
                             !.cost = <<[prompt |-> 2, generated |-> 1, cache_hit |-> 1]>>]}
AStep(m, returns) == [model_response |-> m, invoke_returns |-> returns, extras |-> <<InputFile>>,
                      commit_sequence |-> 1, retain_priority |-> "pinned"]
ATurn(u, steps) == [user_input |-> u, agent_loop_step |-> steps, extras |-> <<InputFile>>,
                    retain_priority |-> "normal"]
ALoop(phase) == [status |-> "failed", phase |-> phase, completed_exchanges |-> 1,
                 committed_response_sequence |-> 1, error |-> "",
                 pending_results |-> <<Return>>]
Bare == [loop |-> Unset, system_prompt |-> <<Obj(<<>>)>>, tools |-> <<>>, turns |-> <<>>,
         extras |-> Unset,
         meta |-> [NewMeta EXCEPT !.session_id = "s", !.created_at = "t1", !.updated_at = "t2"]]
MCSessions ==
    {Bare, [Bare EXCEPT !.extras = <<InputFile>>,
              !.tools = <<[name |-> "t", description |-> "d", argument_schema |-> Obj(<<>>),
                           remote_type |-> <<"hub">>, extras |-> <<InputFile>>]>>]}
    \cup {[Bare EXCEPT !.turns = <<ATurn(NewMessage, <<AStep(m, Unset)>>)>>] : m \in SomeMessages}
    \cup {[Bare EXCEPT !.loop = <<ALoop(phase)>>] : phase \in {"tools", "projection"}}
    \cup {[Bare EXCEPT !.turns = <<ATurn(Said(<<>>), <<AStep(Said(<<>>), r)>>)>>] :
            r \in {<< <<>> >>, << <<Returned>> >>}}

MCWireRecords == DOMAIN wire_fields

(* B lies beside A or within it; the Hub prepares, captures, forks, removes. *)
MCLayouts == {[d \in {"A", "B"} |-> "-"], [d \in {"A", "B"} |-> IF d = "B" THEN "A" ELSE "-"]}
HubAsks(op, d) == [NoJob EXCEPT !.op = op, !.dir = d]
MCRequests ==
    {[HubAsks("prepare", "A") EXCEPT !.refresh = r, !.expected = 1] : r \in {"r1", "r2"}}
    \cup {[HubAsks("prepare", "B") EXCEPT !.refresh = "r1"],
          HubAsks("remove", "A"), HubAsks("remove", "B"), HubAsks("inspect", "A")}
    \cup {[HubAsks("capture_startup", "A") EXCEPT !.life = "l1", !.expected = e] : e \in 1..2}
    \cup {[HubAsks("clean_fork", "B") EXCEPT !.source = [dir |-> "A", life |-> "l1", revision |-> 1]]}

(* The sum. *)

Parts == {"sse", "exchange", "responses", "chat", "conversation",
          "statistic", "prompt", "session", "connection", "remote",
          "allocations", "supervisor", "wire"}

IdleSseFraming ==
    /\ sseBuffer = 0 /\ sseLines = 0 /\ sseNext = 0 /\ sseBase = 0
    /\ sseState = 0 /\ ssePublished = 0 /\ sseBytes = 0 /\ sseHistory = 0
    /\ sseTotal = 0

IdleModelExchange ==
    /\ mxDriver = 0 /\ mxCall = 0 /\ mxCalls = 0 /\ mxAttempt = 0
    /\ mxBackoff = 0 /\ mxSlept = 0 /\ mxStarted = 0 /\ mxCancelled = 0
    /\ mxFailure = 0 /\ mxResult = 0 /\ mxProd = 0 /\ mxCons = 0
    /\ mxReader = 0 /\ mxHandler = 0 /\ mxSeen = 0

IdleResponsesStream ==
    /\ rrItems = 0 /\ rrWire = 0 /\ rrSlots = 0 /\ rrNext = 0 /\ rrStatus = 0
    /\ rrResponse = 0 /\ rrEnd = 0

IdleChatStream ==
    /\ ccPlan = 0 /\ ccWire = 0 /\ ccReader = 0 /\ ccStatus = 0
    /\ ccResponse = 0 /\ ccEnd = 0 /\ ccFault = 0 /\ ccAttempt = 0
    /\ ccCleared = 0 /\ ccBegun = 0 /\ ccStrict = 0

IdleConversation ==
    /\ cvDialect = 0 /\ cvBuilt = 0 /\ cvGeneration = 0 /\ cvSteps = 0
    /\ cvFlight = 0

IdleContextStatistic ==
    /\ csLive = 0 /\ csDisk = 0 /\ csDraft = 0 /\ csRun = 0 /\ csAt = 0
    /\ csError = 0

IdleSessionJson ==
    /\ sjState = 0 /\ sjDoc = 0 /\ sjHow = 0 /\ sjPath = 0 /\ sjRead = 0
    /\ sjLoaded = 0

IdleIoClient ==
    /\ ioRun = 0 /\ ioReader = 0 /\ ioWriter = 0 /\ ioResults = 0
    /\ ioAborted = 0 /\ ioOutgoing = 0 /\ ioStopping = 0 /\ ioStopPosted = 0
    /\ ioClosed = 0 /\ ioQueue = 0 /\ ioWorker = 0 /\ ioFailure = 0
    /\ ioConnects = 0 /\ ioSeen = 0 /\ ioServed = 0 /\ ioUnreported = 0
    /\ ioFault = 0

IdleRemoteCall ==
    /\ rcUse = 0 /\ rcPc = 0 /\ rcTimer = 0 /\ rcActive = 0 /\ rcExpired = 0
    /\ rcStop = 0 /\ rcAborted = 0 /\ rcFailure = 0 /\ rcSent = 0
    /\ rcArrived = 0 /\ rcReply = 0 /\ rcCarried = 0 /\ rcAttempt = 0
    /\ rcSaid = 0

IdleAllocations ==
    /\ mgWithin = 0 /\ mgRecord = [d \in Allocs |-> NoRecord] /\ mgRoot = 0
    /\ mgRef = 0 /\ mgTree = 0 /\ mgLease = 0 /\ mgJob = 0 /\ mgWorker = 0
    /\ mgDeaths = 0 /\ mgUsed = 0 /\ mgCaptured = 0

IdleSupervisor ==
    /\ spLaunch = 0 /\ spHub = 0 /\ spTask = 0 /\ spStarts = 0 /\ spLife = 0
    /\ spClosing = 0 /\ spProcess = 0 /\ spRecord = 0 /\ spStop = 0 /\ spAlloc = 0
    /\ spSaved = 0 /\ spCommand = 0 /\ spExit = 0 /\ spWorker = 0 /\ spReused = 0
    /\ spDeaths = 0 /\ spTold = 0 /\ spHit = 0 /\ spBlind = 0

IdleWireCodec ==
    /\ wcRecord = 0 /\ wcDoc = 0 /\ wcAltered = 0 /\ wcRead = 0 /\ wcAgain = 0
    /\ wcStage = 0

ModelInit ==
    /\ part \in Parts
    /\ IF part = "sse" THEN SseInit ELSE IdleSseFraming
    /\ IF part = "exchange" THEN MxInit ELSE IdleModelExchange
    /\ IF part = "responses" THEN RrInit ELSE IdleResponsesStream
    /\ IF part = "chat" THEN CcInit ELSE IdleChatStream
    /\ IF part = "conversation" THEN CvInit ELSE IdleConversation
    /\ IF part = "statistic" THEN CsInit ELSE IdleContextStatistic
    /\ PtInit
    /\ IF part = "session" THEN SjInit ELSE IdleSessionJson
    /\ IF part = "connection" THEN IoInit ELSE IdleIoClient
    /\ IF part = "remote" THEN RcInit ELSE IdleRemoteCall
    /\ IF part = "allocations" THEN MgInit ELSE IdleAllocations
    /\ IF part = "supervisor" THEN SpInit ELSE IdleSupervisor
    /\ IF part = "wire" THEN WcInit ELSE IdleWireCodec

Others(p) ==
    /\ UNCHANGED part
    /\ p # "sse" => UNCHANGED sseVars
    /\ p # "exchange" => UNCHANGED mxVars
    /\ p # "responses" => UNCHANGED rrVars
    /\ p # "chat" => UNCHANGED ccVars
    /\ p # "conversation" => UNCHANGED cvVars
    /\ p # "statistic" => UNCHANGED csVars
    /\ p # "prompt" => UNCHANGED ptSections
    /\ p # "session" => UNCHANGED sjVars
    /\ p # "connection" => UNCHANGED ioVars
    /\ p # "remote" => UNCHANGED rcVars
    /\ p # "allocations" => UNCHANGED mgVars
    /\ p # "supervisor" => UNCHANGED spVars
    /\ p # "wire" => UNCHANGED wcVars

ModelNext ==
    \/ part = "sse" /\ SseNext /\ Others("sse")
    \/ part = "exchange" /\ MxNext /\ Others("exchange")
    \/ part = "responses" /\ RrNext /\ Others("responses")
    \/ part = "chat" /\ CcNext /\ Others("chat")
    \/ part = "conversation" /\ CvNext /\ Others("conversation")
    \/ part = "statistic" /\ CsNext /\ Others("statistic")
    \/ part = "prompt" /\ PtNext /\ Others("prompt")
    \/ part = "session" /\ SjNext /\ Others("session")
    \/ part = "connection" /\ IoNext /\ Others("connection")
    \/ part = "remote" /\ RcNext /\ Others("remote")
    \/ part = "allocations" /\ MgNext /\ Others("allocations")
    \/ part = "supervisor" /\ SpNext /\ Others("supervisor")
    \/ part = "wire" /\ WcNext /\ Others("wire")

ModelVars == <<part, sseVars, mxVars, rrVars, ccVars, cvVars, csVars,
    ptSections, sjVars, ioVars, rcVars, mgVars, spVars, wcVars>>
ModelSpec == ModelInit /\ [][ModelNext]_ModelVars

-----------------------------------------------------------------------------
(* Properties: those of the components, by subject. *)

\* The SSE decoder publishes the events of the text it was given, wherever the
\* network cuts it and whatever reconnect it resumes after, and keeps no more
\* lines than its window (SseFraming: EventsMatchText, WindowHolds).
EventsAreTheText == part = "sse" => EventsMatchText /\ WindowHolds

\* A call of the model answers with one attempt's stream, whole; its hooks see
\* each delta once; a completed stream is never thrown away; the waits double up
\* to the cap; and after a cancellation, an abort or a throwing hook no further
\* request is sent (ModelExchange: the properties named here).
OneWholeAnswer ==
    /\ [](part = "exchange" => /\ ResponseIsOneStream /\ HooksInStep
                               /\ CompletedIsReturned /\ BackoffSchedule)
    /\ NoRequestAfterStop

\* What the readers assemble is what the provider sent: each item's text once and
\* in order, the calls of this attempt only, and the status of this stream's own
\* end (ResponsesStream and ChatStream: the properties named here).
AssembledAsSent ==
    /\ part = "responses" => TextExactlyOnce /\ NamedItemsInOrder /\ StatusIsThisStreams
    /\ part = "chat" => CompletedCallsSound /\ AttemptIsRetryNumber

\* What is sent to the provider says what the session says: results under the id
\* of their own call, every part in its category, refusals as refusals
\* (Conversation: the properties named here).
RenderedFaithfully ==
    part = "conversation" => ResultsBindRight /\ CategoryKept /\ RefusalStaysRefusal

\* Every committed response is in the statistics once, through edits, undo,
\* failed saves and restarts, and none is pruned before it was counted
\* (ContextStatistic: CountedExactlyOnce, PrunedOnlyWhenCounted).
TokensCountedOnce == part = "statistic" => CountedExactlyOnce /\ PrunedOnlyWhenCounted

\* A session, a prompt and a wire record are read back as they were written: no
\* member of a session's document is silently replaced by its default, the template
\* recovers its text exactly, rendering again leaves the prefix that providers cache
\* alone, and the worker's codec speaks the language of the published schema
\* (SessionJson, PromptTemplate and WireCodec: the properties named here).
WrittenIsReadBack ==
    /\ [](/\ part = "session" => ReadsBack /\ NothingSilentlyDefaulted
          /\ part = "prompt" => RestoredExactly
          /\ part = "wire" => /\ CodecMeetsSchema /\ ForwardedUnchanged
                              /\ EventsCarryWhatIsRegistered)
    /\ PrefixSurvives

\* The traffic with the Hub is accounted for: the connection's run() returns only when
\* nothing of it runs, no frame vanishes and a throwing handler ends it; a remote call
\* tells the model the truth about what the Hub did, sends a mutation once and leaves
\* nothing running behind (IoClient and RemoteCall: the properties named here).
HubTrafficAccounted ==
    /\ part = "connection" => RunIsFence /\ FramesAccounted /\ HandlerFaultEndsRun
    /\ part = "remote" => HonestOutcome /\ NoResend /\ ExchangeFence

\* An allocation reported ready is complete, none lies within another, a fork starts
\* from the captured configuration, and what was retired stays retired, through the
\* deaths of managers that share the directory (Allocations).
AllocationsSound ==
    [](part = "allocations" => ReadyIsWhole /\ NoNesting /\ ForkFromCapture) /\ RetiredForEver

\* A session never has two workers, a stop reported as done leaves none, a settled
\* dispatch is over, a deletion that has begun ends the dispatches, and nobody else is
\* signalled, through lost transports, exits during a stop and deaths of the Hub; all
\* but the last two for Hubs restored from a hub.json that does not mislead them
\* (Supervisor: the properties named here, and the finding about SettledIsOver).
WorkersSupervised ==
    part = "supervisor" => /\ SupervisorTypeOK /\ OneWorker /\ StopsAreTrue
                           /\ spBlind \/ SettledIsOver
                           /\ NoDispatchAfterRemoval /\ NoStrangerSignalled
=============================================================================

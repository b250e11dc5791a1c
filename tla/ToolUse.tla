--------------------------------- MODULE ToolUse --------------------------------
(***************************************************************************)
(* A message on its way through AgentBrain.process (core/brain.py): the loop  *)
(* of model calls and tool calls (core/tool_loop.py), the executor with the    *)
(* operator's switches and the policy before it (core/tool_executor.py,        *)
(* core/operator.py, core/tool_policy.py), the action log (core/action.py) and  *)
(* the agent's status (core/status.py).  Messages are processed side by side,   *)
(* and a channel may cancel one while it waits.                              *)
(***************************************************************************)
EXTENDS Integers, Sequences, FiniteSets

CONSTANTS Messages,      \* the messages of a run of the model
          Tools,         \* the names the language model may call
          Context,       \* the ToolExecutionContext each is processed in
          MaxTurns,      \* of ToolUseLoop
          MaxCalls,      \* the tool calls one answer of the model may hold
          FindsStatus    \* whether the executor finds an AgentStatusModel on the object it
                         \* was given: FALSE for the AgentOrchestrator __main__ gives it,
                         \* which has neither a `_status_model' nor a `brain'

ASSUME ToolUseAssumption ==
    /\ MaxTurns \in Nat \ {0} /\ MaxCalls \in Nat \ {0}
    /\ IsFiniteSet(Messages) /\ FindsStatus \in BOOLEAN
    /\ Context \in [Messages -> [owner : BOOLEAN, safe : BOOLEAN, channel : STRING]]

VARIABLES
    run,        \* how far each message has come
    agentStatus,     \* AgentStatusModel._state
    disabled,   \* the tools the operator has switched off
    actions,    \* the action log: how many actions it holds in each phase
    stats       \* the executor's counters

toolVars == <<run, agentStatus, disabled, actions, stats>>

-----------------------------------------------------------------------------
\* TOOL_CAPABILITIES
Free == {"store_memory", "query_memory", "list_tasks", "check_health", "get_status",
         "search_knowledge"}
OwnerOnly == {"create_task", "web_fetch", "run_code", "run_tests"}
SafeModeBlocked == OwnerOnly
External == {"web_fetch", "run_code", "run_tests"}
Manifest == Free \cup OwnerOnly

RestrictedChannels == {"agent_api", "webhook", "public"}

\* ToolPolicy.evaluate: no tool of the manifest asks for an approval every time.
Allows(tool, context) ==
    /\ tool \in Manifest
    /\ tool \in SafeModeBlocked => context.channel \notin RestrictedChannels /\ ~context.safe
    /\ tool \in OwnerOnly => context.owner

-----------------------------------------------------------------------------
\* A message is new, before its first model call ("thinking"), at the model, in a tool's
\* handler, past the loop ("replying"), done, or cut off in a
\* handler; calls are those of this turn still to do.
MessageRun == [at : {"new", "thinking", "model", "tool", "replying", "done", "cut"},
        turn : 0..MaxTurns, calls : UNION {[1..n -> Tools] : n \in 0..MaxCalls}]

ActionPhases == {"completed", "blocked", "failed"}

ToolUseTypeOK ==
    /\ run \in [Messages -> MessageRun]
    /\ agentStatus \in {"idle", "thinking", "executing", "blocked"}
    /\ disabled \subseteq Tools
    /\ actions \in [ActionPhases -> Nat]
    /\ stats \in [{"calls", "errors", "blocked"} -> Nat]

ToolUseInit ==
    /\ run = [m \in Messages |-> [at |-> "new", turn |-> 0, calls |-> <<>>]]
    /\ agentStatus = "idle" /\ disabled = {}
    /\ actions = [p \in ActionPhases |-> 0]
    /\ stats = [s \in {"calls", "errors", "blocked"} |-> 0]

Moves(m, place) == run' = [run EXCEPT ![m].at = place]

-----------------------------------------------------------------------------
\* process() begins.
BeginMessage(m) ==
    /\ run[m].at = "new" /\ Moves(m, "thinking")
    /\ agentStatus' = "thinking"
    /\ UNCHANGED <<disabled, actions, stats>>

\* Its finally, reached by a reply, an error or a cancellation alike: what a denied tool
\* left stays for the owner to see.
Ends(m, place) ==
    /\ Moves(m, place)
    /\ agentStatus' = IF agentStatus = "blocked" THEN agentStatus ELSE "idle"

\* An intent, the dispatcher, the cache, the knowledge base or the build pipeline answers,
\* or raises.
ReplyEarly(m) ==
    /\ run[m].at = "thinking" /\ Ends(m, "done")
    /\ UNCHANGED <<disabled, actions, stats>>

\* Layer 6, and the loop's first turn
CallTheModel(m) ==
    /\ run[m].at = "thinking"
    /\ run' = [run EXCEPT ![m].at = "model", ![m].turn = 1]
    /\ agentStatus' = "executing"
    /\ UNCHANGED <<disabled, actions, stats>>

\* The model fails or answers in words: the loop is over.
ModelAnswers(m) ==
    /\ run[m].at = "model" /\ Moves(m, "replying")
    /\ UNCHANGED <<agentStatus, disabled, actions, stats>>

\* ToolExecutor.execute up to a handler that starts: the operator's switch, then the policy.
\* Every tool of the manifest has a handler.
Stops(m, tool) == tool \in disabled \/ ~Allows(tool, Context[m])

\* Nothing is awaited between a call that is blocked and the next one: how many of these
\* calls are blocked before one starts its handler, or before the turn is over.
BlockedFirst(m, calls) ==
    CHOOSE k \in 0..Len(calls) :
        /\ \A i \in 1..k : Stops(m, calls[i])
        /\ k < Len(calls) => ~Stops(m, calls[k + 1])

\* An agent that finds its status shows that the policy denied one of the first k calls.
Denied(calls, k) ==
    IF FindsStatus /\ \E i \in 1..k : calls[i] \notin disabled THEN "blocked" ELSE agentStatus

\* _call_count counts the handlers that start.
MutantStarted(k, left) == IF left = <<>> THEN k ELSE k + 1     \* counts the blocked ones too
Started(k, left) == IF left = <<>> THEN 0 ELSE 1

\* The calls of a turn that are left, logged and counted as they go; after the last one the
\* results go to the model, up to MaxTurns.
WorkThrough(m, calls, logged, counted) ==
    LET k == BlockedFirst(m, calls)
        left == SubSeq(calls, k + 1, Len(calls))
    IN /\ actions' = [logged EXCEPT !["blocked"] = @ + k]
       /\ stats' = [counted EXCEPT !["blocked"] = @ + k, !["calls"] = @ + Started(k, left)]
       /\ run' = [run EXCEPT ![m] =
                    [at |-> IF left # <<>> THEN "tool"
                            ELSE IF run[m].turn < MaxTurns THEN "model" ELSE "replying",
                     turn |-> IF left = <<>> /\ run[m].turn < MaxTurns THEN run[m].turn + 1
                              ELSE run[m].turn,
                     calls |-> left]]
       /\ agentStatus' = Denied(calls, k)
       /\ UNCHANGED disabled

\* The model asks for tools.
ModelCalls(m) ==
    /\ run[m].at = "model"
    /\ \E n \in 1..MaxCalls : \E calls \in [1..n -> Tools] : WorkThrough(m, calls, actions, stats)

\* The handler returns, or raises and the model is told so.
ErrorCount(ok) == IF ok THEN stats ELSE [stats EXCEPT !["errors"] = @ + 1]
HandlerEnds(m, ok) ==
    /\ run[m].at = "tool"
    /\ WorkThrough(m, Tail(run[m].calls),
                   [actions EXCEPT ![IF ok THEN "completed" ELSE "failed"] = @ + 1], ErrorCount(ok))

\* Quality, learning, the cache and the record of the exchange are behind it.
SendReply(m) ==
    /\ run[m].at = "replying" /\ Ends(m, "done")
    /\ UNCHANGED <<disabled, actions, stats>>

\* The channel's timeout cancels the message where it waits: a handler that is cut off
\* leaves its action out of the log.
CancelMessage(m) ==
    /\ run[m].at \in {"thinking", "model", "tool", "replying"}
    /\ Ends(m, IF run[m].at = "tool" THEN "cut" ELSE "done")
    /\ UNCHANGED <<disabled, actions, stats>>

-----------------------------------------------------------------------------
\* OperatorControls
Switch(off) == disabled' = off /\ UNCHANGED <<run, agentStatus, actions, stats>>
DisableTool(tool) == tool \notin disabled /\ Switch(disabled \cup {tool})
EnableTool(tool) == tool \in disabled /\ Switch(disabled \ {tool})
Lockdown == ~((External \cap Tools) \subseteq disabled) /\ Switch(disabled \cup (External \cap Tools))
Unlock == disabled # {} /\ Switch({})

ToolUseNext ==
    \/ \E m \in Messages :
          \/ BeginMessage(m) \/ ReplyEarly(m) \/ CallTheModel(m) \/ ModelAnswers(m)
          \/ ModelCalls(m) \/ SendReply(m) \/ CancelMessage(m)
          \/ \E ok \in BOOLEAN : HandlerEnds(m, ok)
    \/ \E tool \in Tools : DisableTool(tool) \/ EnableTool(tool)
    \/ Lockdown \/ Unlock

ToolUseSpec == ToolUseInit /\ [][ToolUseNext]_toolVars

(***************************************************************************)
(* Properties                                                              *)
(***************************************************************************)
InProgress == {m \in Messages : run[m].at \notin {"new", "done", "cut"}}

\* Calls that are counted and in no log: in their handler, or cancelled in it
Unlogged == {m \in Messages : run[m].at \in {"tool", "cut"}}

\* However the messages overlap, fail and are cancelled, the action log and the counters of
\* the executor tell one story: a counted call is in the log, in its handler or was cut off
\* in it.  With no message in progress the owner sees an idle agent, or, where the
\* executor finds the status, one that was denied a tool.
CallsAreAccounted ==
    /\ stats["calls"] = actions["completed"] + actions["failed"] + Cardinality(Unlogged)
    /\ stats["errors"] = actions["failed"] /\ stats["blocked"] = actions["blocked"]
    /\ InProgress = {} => agentStatus = "idle" \/ (FindsStatus /\ agentStatus = "blocked")
===============================================================================

------------------------- MODULE ProviderConcurrency -------------------------
(***************************************************************************)
(* wrapStreamFnWithProviderConcurrency: every LLM request takes a slot of  *)
(* its provider's semaphore before it goes out and gives it back once,     *)
(* when its stream has finished producing.  The agents that make the       *)
(* requests form a spawn tree: after the stream of a turn an agent runs    *)
(* its tools, which start its children and wait for them.                  *)
(*                                                                         *)
(* A client of the semaphore is a request <<a, t>>: turn t of agent a.     *)
(***************************************************************************)
EXTENDS Semaphore

CONSTANTS
  Agent,      \* the agents of one spawn tree
  Root,       \* the agent the user started
  ChildrenOf, \* ChildrenOf[a]: the agents spawned by the tools of a's first turn
  Turns       \* LLM requests an agent makes before it is done

ASSUME TreeAssumption ==
  /\ Root \in Agent /\ Turns \in Nat \ {0}
  /\ ChildrenOf \in [Agent -> SUBSET Agent]
  /\ \A a \in Agent : Root \notin ChildrenOf[a]
  /\ \A a, b \in Agent : a # b => ChildrenOf[a] \cap ChildrenOf[b] = {}
  /\ Client = Agent \X (1..Turns)

VARIABLES
  run,      \* "dormant", "ready" (for its next request), "request", "tools", "done"
  turn,     \* the turn an agent is in
  aborted,  \* whether an agent's AbortSignal has fired
  req       \* "none", "calling" (acquire or base awaited), "streaming",
            \* "ended" (result() settled, release not run yet), "over"

treeVars == <<run, turn, aborted, req>>
vars == <<semVars, treeVars>>

Current(a) == <<a, turn[a]>>

TreeInit ==
  /\ Init
  /\ run = [a \in Agent |-> IF a = Root THEN "ready" ELSE "dormant"]
  /\ turn = [a \in Agent |-> 1]
  /\ aborted = [a \in Agent |-> FALSE]
  /\ req = [r \in Client |-> "none"]

-----------------------------------------------------------------------------
\* getProviderSemaphore resizes the shared semaphore to the limit n of the
\* caller's settings and acquire() then runs in the same turn of the event
\* loop: the call is granted, queued, or refused because its signal is
\* already aborted (the resize stays).
Call(a, n) ==
  LET m     == NormalizeConcurrencyLimit(n)
      k     == Admitted(m, current, Len(queue))
      taken == current + k
      rest  == SubSeq(queue, k + 1, Len(queue))
      r     == Current(a)
  IN /\ run[a] = "ready"
     /\ max' = m
     /\ \/ /\ aborted[a]
           /\ current' = taken /\ queue' = rest /\ state' = Granting(k)
           /\ run' = [run EXCEPT ![a] = "done"]
           /\ UNCHANGED req
        \/ /\ ~aborted[a] /\ HasRoom(m, taken)
           /\ current' = taken + 1 /\ queue' = rest
           /\ state' = [Granting(k) EXCEPT ![r] = "holding"]
           /\ run' = [run EXCEPT ![a] = "request"]
           /\ req' = [req EXCEPT ![r] = "calling"]
        \/ /\ ~aborted[a] /\ ~HasRoom(m, taken)
           /\ current' = taken /\ queue' = Append(rest, r)
           /\ state' = [Granting(k) EXCEPT ![r] = "waiting"]
           /\ run' = [run EXCEPT ![a] = "request"]
           /\ req' = [req EXCEPT ![r] = "calling"]
     /\ UNCHANGED <<turn, aborted>>

\* An agent's signal fires. A queued acquire() rejects, which ends the agent;
\* anything else notices through its own signal handling.
Abort(a) ==
  /\ run[a] \notin {"dormant", "done"} /\ ~aborted[a]
  /\ aborted' = [aborted EXCEPT ![a] = TRUE]
  /\ \/ /\ run[a] = "request" /\ state[Current(a)] = "waiting"
        /\ OnAbort(Current(a))
        /\ req' = [req EXCEPT ![Current(a)] = "over"]
        /\ run' = [run EXCEPT ![a] = "done"]
        /\ UNCHANGED turn
     \/ /\ ~(run[a] = "request" /\ state[Current(a)] = "waiting")
        /\ UNCHANGED <<semVars, run, turn, req>>

\* `await base(...)` returns the stream: result() gets its release listener.
BaseReturns(a) ==
  /\ run[a] = "request" /\ req[Current(a)] = "calling"
  /\ state[Current(a)] = "holding"
  /\ req' = [req EXCEPT ![Current(a)] = "streaming"]
  /\ UNCHANGED <<semVars, run, turn, aborted>>

\* `await base(...)` throws: the catch block releases, the turn fails.
\* Mutated form: the catch block does not release.
BaseThrowsKeepsSlot(a) ==
  /\ run[a] = "request" /\ req[Current(a)] = "calling" /\ state[Current(a)] = "holding"
  /\ req' = [req EXCEPT ![Current(a)] = "over"]
  /\ run' = [run EXCEPT ![a] = "done"]
  /\ UNCHANGED <<semVars, turn, aborted>>
BaseThrows(a) ==
  /\ run[a] = "request" /\ req[Current(a)] = "calling"
  /\ Release(Current(a))
  /\ req' = [req EXCEPT ![Current(a)] = "over"]
  /\ run' = [run EXCEPT ![a] = "done"]
  /\ UNCHANGED <<turn, aborted>>

\* The provider pushes done or error, or fails the stream: result() settles.
StreamEnds(r) ==
  /\ req[r] = "streaming"
  /\ req' = [req EXCEPT ![r] = "ended"]
  /\ UNCHANGED <<semVars, run, turn, aborted>>

\* The release listener of result() runs.
\* Mutated form: the slot is held until the agent that made the request is done.
ReleaseAfterAgent(r) ==
  /\ req[r] = "ended" /\ run[r[1]] = "done"
  /\ Release(r)
  /\ req' = [req EXCEPT ![r] = "over"]
  /\ UNCHANGED <<run, turn, aborted>>
ReleaseAfterStream(r) ==
  /\ req[r] = "ended"
  /\ Release(r)
  /\ req' = [req EXCEPT ![r] = "over"]
  /\ UNCHANGED <<run, turn, aborted>>

\* The agent has read its stream to the end. An aborted agent and one that
\* has used its turns stop; the others run their tools, and those of the
\* first turn spawn the children.
TurnEnds(a) ==
  /\ run[a] = "request" /\ req[Current(a)] \in {"ended", "over"}
  /\ run' = IF aborted[a] \/ turn[a] = Turns
            THEN [run EXCEPT ![a] = "done"]
            ELSE [b \in Agent |->
                    IF b = a THEN "tools"
                    ELSE IF turn[a] = 1 /\ b \in ChildrenOf[a] THEN "ready"
                    ELSE run[b]]
  /\ UNCHANGED <<semVars, turn, aborted, req>>

\* The task tool returns when every child has finished.
ToolsEnd(a) ==
  /\ run[a] = "tools"
  /\ \A b \in ChildrenOf[a] : run[b] = "done"
  /\ run' = [run EXCEPT ![a] = "ready"]
  /\ turn' = [turn EXCEPT ![a] = @ + 1]
  /\ UNCHANGED <<semVars, aborted, req>>

AgentStep(a) ==
  (\E n \in LimitInput : Call(a, n)) \/ BaseReturns(a) \/ BaseThrows(a)
    \/ TurnEnds(a) \/ ToolsEnd(a)

TreeNext ==
  \/ \E a \in Agent : AgentStep(a) \/ Abort(a)
  \/ \E r \in Client : StreamEnds(r) \/ ReleaseAfterStream(r)

\* Agents go on, provider requests end (providers bound them by idle and
\* total timeouts), microtasks run. Aborts are never assumed to happen.
TreeFairness ==
  /\ \A a \in Agent : WF_vars(AgentStep(a))
  /\ \A r \in Client : WF_vars(StreamEnds(r)) /\ WF_vars(ReleaseAfterStream(r))

TreeSpec == TreeInit /\ [][TreeNext]_vars /\ TreeFairness

-----------------------------------------------------------------------------
\* A slot is held exactly by the requests whose stream may still produce, or
\* has just ended: not by agents that run tools (wrapStreamFn's comment: the
\* bracket is one slot per LLM call), not by requests that failed or were
\* aborted while queued, and no slot is given back twice.
SlotPerLiveRequest ==
  \A r \in Client :
    /\ state[r] = "holding" => req[r] \in {"calling", "streaming", "ended"}
    /\ req[r] \in {"streaming", "ended"} => state[r] = "holding"

\* A spawn tree wider and deeper than the limit does not deadlock on itself
\* (issue #3749): each agent that was spawned finishes.
EverySpawnedAgentFinishes ==
  \A a \in Agent : run[a] = "ready" ~> run[a] = "done"
=============================================================================

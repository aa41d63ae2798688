---------------------------- MODULE ToolApproval ----------------------------
(***************************************************************************)
(* The approval of tools: a tool that the capability snapshot does not     *)
(* allow (agent/tools/registry.py) asks for a confirmation and is put on   *)
(* the session's list of denied tools (agent/runner.py); the user's next   *)
(* message (agent/agent_turn_pipeline.py, agent/agent_runtime.py), the     *)
(* REST API (gateway/rest_api.py) or the /approval command                 *)
(* (command/builtin.py) answers it; an approval issues a grant             *)
(* (security/grants.py).                                                   *)
(*                                                                         *)
(* The handlers never await, so each is one step, but a crash may fall     *)
(* between the answer and the grant.                                       *)
(***************************************************************************)
EXTENDS Confirmations

CONSTANTS
    Requests,    \* a tool with parameters, wanted in a session
    ReqSession,  \* [Requests -> Sessions]
    ReqTool,     \* [Requests -> Tools]
    Sessions,
    Tools,
    NoTool,      \* tool_name = None
    HighRisk,    \* exec, cron, spawn
    Owner,       \* [Sessions -> Actors \cup {Nobody}]: the turn's actor_id
    ShortTTL,    \* ten minutes
    LongTTL      \* the user's or seven days

ASSUME ApprovalAssumption ==
    /\ Requests \subseteq Subjects \cap Keys
    /\ ReqSession \in [Requests -> Sessions]
    /\ ReqTool \in [Requests -> Tools]
    /\ HighRisk \subseteq Tools
    /\ Owner \in [Sessions -> Actors \cup {Nobody}]
    /\ ShortTTL \in Nat /\ LongTTL \in Nat /\ ShortTTL < LongTTL

VARIABLES
    grants,  \* capability_grants.json
    denied   \* [Sessions -> SUBSET Tools]: metadata["_denied_tools"]

approvalVars == <<grants, denied>>

\* via and issued are history.
Grant == [conf : Confs, subject : Subjects, tool : Tools \cup {NoTool},
          issued : Nat, expires : Nat, via : {"chat", "rest"}]

ApprovalInit ==
    /\ grants = <<>>
    /\ denied = [s \in Sessions |-> {}]

ApprovalTypeOK ==
    /\ grants \in Seq(Grant)
    /\ denied \in [Sessions -> SUBSET Tools]

Active(g) == g.expires > clock
\* latest_active_for_session
Covered(s, t) ==
    \E n \in DOMAIN grants : /\ Active(grants[n])
                             /\ grants[n].tool = t
                             /\ ReqSession[grants[n].subject] = s

\* Mutant: a persistent answer is honoured for every tool.
IssuedUngraded(c, persistent, via) ==
    Append(grants, [conf |-> c, subject |-> conf[c].subject,
                    tool |-> IF conf[c].kind = "tool" THEN ReqTool[conf[c].subject]
                                                      ELSE NoTool,
                    issued |-> clock, via |-> via,
                    expires |-> clock + IF persistent THEN LongTTL ELSE ShortTTL])

\* issue_tool_approval_grant
Issued(c, persistent, via) ==
    LET tool == IF conf[c].kind = "tool" THEN ReqTool[conf[c].subject] ELSE NoTool
        ttl  == IF persistent /\ tool \notin HighRisk THEN LongTTL ELSE ShortTTL
    IN  IF \E n \in DOMAIN grants : grants[n].conf = c /\ Active(grants[n])
          THEN grants
          ELSE Append(grants, [conf |-> c, subject |-> conf[c].subject, tool |-> tool,
                               issued |-> clock, expires |-> clock + ttl, via |-> via])

\* _assert_capability, _raise_or_request_tool_approval, create_tool_approval
\* and _persist_session_denied_tool: without a grant, ask (an equal question
\* that is pending is used again) and deny the tool.  A denied tool does not
\* get here.
CallTool(r) ==
    LET s == ReqSession[r]
        waiting == \E c \in Confs : conf[c].kind = "tool" /\ Pending(c) /\ conf[c].key = r
    IN  /\ ReqTool[r] \notin denied[s]
        /\ ~Covered(s, ReqTool[r])
        /\ IF waiting THEN UNCHANGED conf
                      ELSE Asked(Question("tool", r, r, Owner[s]))
        /\ denied' = [denied EXCEPT ![s] = @ \cup {ReqTool[r]}]
        /\ UNCHANGED <<clock, faults, grants>>

\* latest_pending_tool_approval
Latest(s) ==
    LET own == {c \in Confs : /\ conf[c].kind = "tool" /\ Pending(c)
                              /\ ReqSession[conf[c].subject] = s}
    IN  {c \in own : \A d \in own : d <= c}

\* The grant that follows an answer, unless the process dies before it.
Then(d, c, via) ==
    \/ /\ grants' = IF d \in {"confirmed", "persistent"}
                      THEN Issued(c, d = "persistent", via) ELSE grants
       /\ UNCHANGED faults
    \/ d \in {"confirmed", "persistent"} /\ Fault /\ UNCHANGED grants

\* Mutant: the list of denied tools outlives the user's message.
UserTurnKeepsDenials(s, reply) ==
    \E c \in Latest(s) :
        /\ conf' = Resolved(c, reply, Nobody)
        /\ Then(Decision(c, reply, Nobody), c, "chat")
        /\ UNCHANGED <<clock, denied>>

\* state_build of a user's turn: clear the denials, then take the message as
\* the answer to the session's latest question, whoever sent it.
UserTurn(s, reply) ==
    /\ denied' = [denied EXCEPT ![s] = {}]
    /\ IF Latest(s) = {} \/ reply = "unclear"
         THEN conf' = WithoutOld /\ UNCHANGED <<grants, faults>>
         ELSE \E c \in Latest(s) :
                /\ conf' = [WithoutOld EXCEPT ![c] = Resolved(c, reply, Nobody)[c]]
                /\ Then(Decision(c, reply, Nobody), c, "chat")
    /\ UNCHANGED clock

\* _handle_approval_action: any kind of confirmation, no user's turn.
RestDecides(c, reply, caller) ==
    /\ conf[c].status # "none"
    /\ conf' = Resolved(c, reply, caller)
    /\ Then(Decision(c, reply, caller), c, "rest")
    /\ UNCHANGED <<clock, denied>>

\* cmd_approval: answers the question and reports a grant, but issues none.
CommandDecides(c, reply, caller) ==
    /\ conf[c].status # "none"
    /\ conf' = Resolved(c, reply, caller)
    /\ UNCHANGED <<clock, faults, grants, denied>>

ApprovalStep ==
    \/ \E r \in Requests : CallTool(r)
    \/ \E s \in Sessions, reply \in Replies : UserTurn(s, reply)
    \/ \E c \in Confs, reply \in {"confirmed", "rejected"}, a \in Actors \cup {Nobody} :
         RestDecides(c, reply, a)
    \/ \E c \in Confs, reply \in {"confirmed", "rejected"}, a \in Actors :
         CommandDecides(c, reply, a)

----------------------------------------------------------------------------
\* Properties.

\* A grant gives a tool only for a tool approval that was answered with a yes,
\* for the tool and the session it was asked for; a confirmation is turned
\* into one grant, by whichever of chat and REST answers first; and a
\* high-risk tool is never granted for longer than the short time.
PowerFromApproval ==
    \A n \in DOMAIN grants :
        LET g == grants[n] c == conf[g.conf]
        IN  /\ c.said \in {"confirmed", "persistent"}
            /\ g.tool # NoTool => c.kind = "tool" /\ g.tool = ReqTool[c.subject]
            /\ g.tool \in HighRisk => g.expires - g.issued <= ShortTTL
            /\ \A m \in DOMAIN grants : grants[m].conf = g.conf => m = n

\* A tool the user approved in the chat is not on the session's list of denied
\* tools while the grant lasts, however calls, turns and other answers come
\* in between (runner.py's session-permanent denial is cleared in time).
ApprovedUsable ==
    \A n \in DOMAIN grants :
        LET g == grants[n]
        IN  g.via = "chat" /\ Active(g) => g.tool \notin denied[ReqSession[g.subject]]
=============================================================================

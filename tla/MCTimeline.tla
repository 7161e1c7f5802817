----------------------------- MODULE MCTimeline -----------------------------
(***************************************************************************)
(* Instances of TurnTimeline for TLC: what the agent may write.            *)
(***************************************************************************)
EXTENDS TurnTimeline, TLC

CONSTANTS u1, u2, m1, k1, q1

Chunk(type, m) == Line("session/update", type, "content", m, None)
ToolLine(type, status) == Line("session/update", type, "toolCallId", k1, status)

(* One of each: texts with and without a message id, a reply without a
   type, both echoes, a tool, a plan, a stage title, a line nobody shows.  *)
AgentLines ==
    {Chunk("agent_thought_chunk", None), Chunk("agent_message_chunk", m1),
     Line("session/update", None, "text", None, None),
     Line("session/update", "user_message_chunk", "echo", None, None),
     Line("session/update", "user_message_chunk", "other", None, None),
     ToolLine("tool_call", None), ToolLine("tool_call_update", "completed"),
     Line("session/update", None, "entries", None, None),
     Line("session/request_permission", None, "requestId", q1, None),
     Line("_x.ai", None, "title", None, None)}

(* The turn that starts the task writes lines of any kind; a follow-up that
   overlaps it writes a reply.                                             *)
Overlapped == u1 :> AgentLines @@ u2 :> {Chunk("agent_message_chunk", None)}
=============================================================================

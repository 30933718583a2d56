------------------------------- MODULE SseStream -------------------------------
(***************************************************************************)
(* What the reader of POST /chat/stream is promised, event by event:       *)
(*                                                                         *)
(*      sources token* [error] done     an answer, or a canned reply, and  *)
(*                                      perhaps the guard's objection      *)
(*      sources token* error            the pipeline failed on the way     *)
(*      error                           it failed before it had sources    *)
(*                                                                         *)
(* and then the end of the stream.  RAGPipeline.stream (ChatPipeline) and  *)
(* the thread-to-event-loop bridge of the route (StreamBridge) are both    *)
(* shown to implement this.                                                *)
(***************************************************************************)
EXTENDS Sequences, Naturals

VARIABLES
    sent,       \* the types of the events so far
    ended       \* whether the stream is over

EventTypes == {"sources", "token", "error", "done"}

\* rag_pipeline.py: citations first, then the text, then the verdict.
WellFormed(s) ==
    \A i \in 1..Len(s) :
        CASE s[i] = "sources" -> i = 1
          [] s[i] = "token"   -> i > 1 /\ s[i-1] \in {"sources", "token"}
          [] s[i] = "error"   -> (i > 1 => s[i-1] \in {"sources", "token"})
          [] s[i] = "done"    -> i > 1 /\ s[1] = "sources" /\ s[i-1] # "done"

\* No stream just stops: what ends it is the verdict or an error.
Complete(s) == s # <<>> /\ s[Len(s)] \in {"done", "error"}

Init == sent = <<>> /\ ended = FALSE

\* One event or several arrive; what was read is never taken back.
Send ==
    /\ Len(sent') > Len(sent)
    /\ SubSeq(sent', 1, Len(sent)) = sent
    /\ sent' \in Seq(EventTypes)
    /\ WellFormed(sent')

Next ==
    /\ ~ ended
    /\ Send \/ UNCHANGED sent
    /\ ended' => Complete(sent')
    /\ ended' \in BOOLEAN

Spec == Init /\ [][Next]_<<sent, ended>>

================================================================================

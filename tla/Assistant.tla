----------------------------- MODULE Assistant -----------------------------
(***************************************************************************)
(* The chat with the assistant, and the panel that has a draft written.    *)
(* What was asked is a number.                                             *)
(***************************************************************************)
EXTENDS Browser

\* asked: how many times; the components do not keep it.
ChatBlank == [messages |-> <<>>, sending |-> FALSE, unavailable |-> FALSE, error |-> FALSE, asked |-> 0]

MaySend == open = "chat" /\ ~page.sending /\ page.asked < MaxRows

SendMessage(s) ==
  /\ MaySend
  /\ Send(s, Request("ask", page.asked + 1, FALSE))
  /\ page' = [page EXCEPT !.messages = Append(page.messages, [role |-> "user", id |-> page.asked + 1]),
                          !.sending = TRUE, !.error = FALSE, !.asked = page.asked + 1]

\* No provider, or no content: nothing is said for the assistant.
MessageAnswered(s) ==
  /\ open = "chat"
  /\ \/ /\ Answered(s, "ask")
        /\ \/ page' = [page EXCEPT !.sending = FALSE, !.unavailable = TRUE]
           \/ page' = [page EXCEPT !.sending = FALSE,
                                   !.messages = Append(page.messages, [role |-> "assistant", id |-> flight[s].rows[1].id])]
     \/ Failed(s, "ask") /\ page' = [page EXCEPT !.sending = FALSE, !.error = TRUE]
  /\ Settle(s)

\* Disabled while a message is sent.
ClearConversation ==
  /\ open = "chat" /\ page.messages # <<>> /\ ~page.sending
  /\ page' = [page EXCEPT !.messages = <<>>, !.error = FALSE, !.unavailable = FALSE]
  /\ UNCHANGED <<open, stored, flight, lapse>>

ChatNext(s) == SendMessage(s) \/ MessageAnswered(s) \/ ClearConversation

ChatBusy == page.sending => InFlight("ask")

\* What the assistant says follows at once what it was asked.
ChatAgrees ==
  \A i \in DOMAIN page.messages :
    page.messages[i].role = "assistant" =>
      i > 1 /\ page.messages[i - 1] = [role |-> "user", id |-> page.messages[i].id]

-----------------------------------------------------------------------------
\* edited: the user wrote in the draft.
DraftBlank == [stage |-> "idle", draft |-> 0, edited |-> FALSE, asked |-> 0]

\* Generate, Try again and Regenerate.
MayGenerate == open = "draft" /\ page.stage # "loading" /\ page.asked < MaxRows

Generate(s) ==
  /\ MayGenerate
  /\ Send(s, Request("ask", page.asked + 1, FALSE))
  /\ page' = [page EXCEPT !.stage = "loading", !.asked = page.asked + 1]

Generated(s) ==
  /\ open = "draft"
  /\ \/ /\ Answered(s, "ask")
        /\ \/ page' = [page EXCEPT !.stage = "unavailable", !.draft = 0]
           \/ page' = [page EXCEPT !.stage = "done", !.draft = flight[s].rows[1].id, !.edited = FALSE]
     \/ Failed(s, "ask") /\ page' = [page EXCEPT !.stage = "error"]
  /\ Settle(s)

EditDraft ==
  /\ open = "draft" /\ page.stage = "done"
  /\ \/ page' = [page EXCEPT !.edited = TRUE]
     \/ page' = [page EXCEPT !.stage = "idle", !.draft = 0]
  /\ UNCHANGED <<open, stored, flight, lapse>>

DraftNext(s) == Generate(s) \/ Generated(s) \/ EditDraft

DraftBusy == page.stage = "loading" => InFlight("ask")
DraftAgrees == (page.stage = "done" /\ ~page.edited) => page.draft = page.asked

-----------------------------------------------------------------------------
Message == [role : {"user", "assistant"}, id : Nat]
ChatType ==
  [messages : Seq(Message), sending : BOOLEAN, unavailable : BOOLEAN, error : BOOLEAN, asked : Nat]
DraftType ==
  [stage : {"idle", "loading", "unavailable", "done", "error"}, draft : Nat, edited : BOOLEAN, asked : Nat]

\* Inductive: one request at a time, and it is for the last message.
ChatInv ==
  /\ page \in ChatType
  /\ OneInFlight
  /\ \A s \in Slots : flight[s] # Free =>
       /\ flight[s].op = "ask" /\ page.sending
       /\ page.messages # <<>>
       /\ page.messages[Len(page.messages)] = [role |-> "user", id |-> flight[s].id]
  /\ ChatBusy /\ ChatAgrees

\* Inductive.
DraftInv ==
  /\ page \in DraftType
  /\ OneInFlight
  /\ \A s \in Slots : flight[s] # Free =>
       flight[s].op = "ask" /\ flight[s].id = page.asked /\ page.stage = "loading"
  /\ DraftBusy /\ DraftAgrees
=============================================================================

------------------------- MODULE ConversationsProofs -------------------------
(***************************************************************************)
(* Theorems about Conversations, for any requests and devices: who is      *)
(* notified, what becomes of the text of a deleted message, what brings a  *)
(* conversation back to a badge.                                           *)
(***************************************************************************)
EXTENDS Conversations, TLAPS

-----------------------------------------------------------------------------
(* The inductive invariant.                                                *)

CallRecord ==
    [at : {"idle"}]
      \cup [at : {"upsert", "create"}, user : Parties]
      \cup [at : {"notify"}, user : Parties, message : Nat]
      \cup [at : {"push"}, message : Nat, devices : SUBSET Devices, rows : SUBSET Devices,
            crossed : BOOLEAN]
      \cup [at : {"answer", "delete"}, message : Nat]
      \cup [at : {"edit"}, message : Nat, crossed : BOOLEAN]
      \cup [at : {"markRead"}, user : Parties, date : Nat]

Typed ==
    /\ author \in Seq(Parties) /\ body \in Seq({"plain", "masked"}) /\ Len(body) = Len(author)
    /\ deleted \subseteq Sent
    /\ lastRead \in [Parties -> Nat]
    /\ owner \in [Devices -> Parties \cup {Nobody}]

CallsTyped == call \in [Calls -> CallRecord]

\* A request works on a message that was sent.
MessageSent ==
    \A r \in Calls : call[r].at \in {"notify", "push", "answer", "edit", "delete"} => call[r].message \in Sent

\* The author of a message notifies; an edit knows that its message was
\* deleted; the devices of a notification are not the author's unless one of
\* them changed hands.
NotifiedByAuthor ==
    \A r \in Calls : call[r].at = "notify" => call[r].user = author[call[r].message]

EditKnows ==
    \A r \in Calls : call[r].at = "edit" /\ call[r].message \in deleted => call[r].crossed

DevicesOfOther ==
    \A r \in Calls : call[r].at = "push" /\ ~call[r].crossed =>
       \A d \in call[r].devices : owner[d] # author[call[r].message]

CallsSound == CallsTyped /\ MessageSent /\ NotifiedByAuthor /\ EditKnows /\ DevicesOfOther

ConversationInv == Typed /\ CallsSound /\ AuthorNotNotified /\ DeletedLeavesWithItsPost

-----------------------------------------------------------------------------
(* The records of the requests.                                            *)

LEMMA CallShapes ==
    ASSUME CallsTyped, NEW r \in Calls
    PROVE  /\ call[r].at \in {"upsert", "create", "notify", "markRead"} => call[r].user \in Parties
           /\ call[r].at \in {"notify", "push", "answer", "edit", "delete"} => call[r].message \in Nat
           /\ call[r].at = "markRead" => call[r].date \in Nat
           /\ call[r].at = "push" => /\ call[r].devices \subseteq Devices
                                     /\ call[r].rows \subseteq Devices
                                     /\ call[r].crossed \in BOOLEAN
           /\ call[r].at = "edit" => call[r].crossed \in BOOLEAN
           /\ call[r].at \in {"idle", "upsert", "create", "notify", "push", "answer", "edit",
                              "delete", "markRead"}
BY DEF CallsTyped, CallRecord

\* A request crossed by another knows it.
LEMMA CrossedShape ==
    ASSUME CallsTyped, NEW s \in Calls, call[s].at \in {"edit", "push"}
    PROVE  /\ Crossed(s) \in CallRecord /\ Crossed(s).at = call[s].at
           /\ Crossed(s).message = call[s].message /\ Crossed(s).crossed
           /\ call[s].at = "push" => Crossed(s).devices = call[s].devices
<1> DEFINE c == call[s]
<1>1. c \in CallRecord
  BY DEF CallsTyped
<1> HIDE DEF c
<1>2. CASE c.at = "edit"
  <2>1. c = [at |-> "edit", message |-> c.message, crossed |-> c.crossed] /\ c.message \in Nat
    BY <1>1, <1>2 DEF CallRecord
  <2>2. [c EXCEPT !.crossed = TRUE] = [at |-> "edit", message |-> c.message, crossed |-> TRUE]
    <3>1. \A t : [[at |-> "edit", message |-> c.message, crossed |-> c.crossed] EXCEPT !.crossed = t]
                    = [at |-> "edit", message |-> c.message, crossed |-> t]
      OBVIOUS
    <3> QED
      BY <2>1, <3>1, Zenon
  <2>3. [c EXCEPT !.crossed = TRUE] \in CallRecord
    BY <2>1, <2>2 DEF CallRecord
  <2> QED
    BY <1>2, <2>2, <2>3 DEF Crossed, c
<1>3. CASE c.at = "push"
  <2>1. /\ c = [at |-> "push", message |-> c.message, devices |-> c.devices, rows |-> c.rows,
                crossed |-> c.crossed]
        /\ c.message \in Nat /\ c.devices \subseteq Devices /\ c.rows \subseteq Devices
    BY <1>1, <1>3 DEF CallRecord
  <2>2. [c EXCEPT !.crossed = TRUE]
          = [at |-> "push", message |-> c.message, devices |-> c.devices, rows |-> c.rows,
             crossed |-> TRUE]
    <3>1. \A t : [[at |-> "push", message |-> c.message, devices |-> c.devices, rows |-> c.rows,
                   crossed |-> c.crossed] EXCEPT !.crossed = t]
                    = [at |-> "push", message |-> c.message, devices |-> c.devices,
                       rows |-> c.rows, crossed |-> t]
      OBVIOUS
    <3> QED
      BY <2>1, <3>1, Zenon
  <2>3. [c EXCEPT !.crossed = TRUE] \in CallRecord
    BY <2>1, <2>2 DEF CallRecord
  <2> QED
    BY <1>3, <2>2, <2>3 DEF Crossed, c
<1> QED
  BY <1>2, <1>3 DEF c

\* A notification loses rows and nothing else.
LEMMA WithoutShape ==
    ASSUME CallsTyped, NEW ds, NEW s \in Calls
    PROVE  /\ CallsWithout(ds)[s] \in CallRecord /\ CallsWithout(ds)[s].at = call[s].at
           /\ call[s].at # "push" => CallsWithout(ds)[s] = call[s]
           /\ call[s].at = "push" => /\ CallsWithout(ds)[s].message = call[s].message
                                     /\ CallsWithout(ds)[s].devices = call[s].devices
                                     /\ CallsWithout(ds)[s].crossed = call[s].crossed
<1> DEFINE c == call[s]
<1>1. c \in CallRecord
  BY DEF CallsTyped
<1>2. CallsWithout(ds)[s] = IF c.at = "push" THEN [c EXCEPT !.rows = c.rows \ ds] ELSE c
  BY DEF CallsWithout
<1> HIDE DEF c
<1>3. CASE c.at = "push"
  <2>1. /\ c = [at |-> "push", message |-> c.message, devices |-> c.devices, rows |-> c.rows,
                crossed |-> c.crossed]
        /\ c.message \in Nat /\ c.devices \subseteq Devices /\ c.rows \subseteq Devices
        /\ c.crossed \in BOOLEAN
    BY <1>1, <1>3 DEF CallRecord
  <2>2. [c EXCEPT !.rows = c.rows \ ds]
          = [at |-> "push", message |-> c.message, devices |-> c.devices, rows |-> c.rows \ ds,
             crossed |-> c.crossed]
    BY <2>1
  <2>3. [c EXCEPT !.rows = c.rows \ ds] \in CallRecord
    BY <2>1, <2>2 DEF CallRecord
  <2> QED
    BY <1>2, <1>3, <2>2, <2>3 DEF c
<1> QED
  BY <1>1, <1>2, <1>3 DEF c

-----------------------------------------------------------------------------
(* Steps preserve the invariant.                                           *)

\* The other parts do not see a step of one request that leaves the rows
\* alone, when it waits for something that is true.
LEMMA OneCall ==
    ASSUME ConversationInv, NEW r \in Calls, NEW c \in CallRecord,
           call' = [call EXCEPT ![r] = c], author' = author, deleted' = deleted, owner' = owner,
           c.at \in {"notify", "push", "answer", "edit", "delete"} => c.message \in Sent,
           c.at = "notify" => c.user = author[c.message],
           c.at = "edit" => c.message \notin deleted,
           c.at = "push" => \A d \in c.devices : owner[d] # author[c.message]
    PROVE  CallsSound'
<1>1. CallsTyped'
  BY DEF ConversationInv, CallsSound, CallsTyped
<1>2. /\ call'[r] = c
      /\ \A s \in Calls : s # r => call'[s] = call[s]
  BY DEF ConversationInv, CallsSound, CallsTyped
<1>3. Sent' = Sent
  BY DEF Sent
<1>4. MessageSent'
  BY <1>2, <1>3 DEF ConversationInv, CallsSound, MessageSent
<1>5. NotifiedByAuthor'
  BY <1>2 DEF ConversationInv, CallsSound, NotifiedByAuthor
<1>6. EditKnows'
  BY <1>2 DEF ConversationInv, CallsSound, EditKnows
<1>7. DevicesOfOther'
  BY <1>2 DEF ConversationInv, CallsSound, DevicesOfOther
<1> QED
  BY <1>1, <1>4, <1>5, <1>6, <1>7 DEF CallsSound

LEMMA IdleIsRecord == NoCall \in CallRecord /\ NoCall.at = "idle"
BY DEF NoCall, CallRecord

\* A step that sends nothing out gives nothing away.
LEMMA SilentIsSafe ==
    ASSUME Silent
    PROVE  AuthorNotNotified' /\ DeletedLeavesWithItsPost'
BY DEF Silent, AuthorNotNotified, DeletedLeavesWithItsPost, Reveals, Nothing

\* A request arrives.
LEMMA ArriveStep ==
    ASSUME ConversationInv, NEW r \in Calls, NEW c \in CallRecord, Arrive(r, c),
           c.at \in {"upsert", "create", "edit", "delete", "markRead"},
           c.at \in {"edit", "delete"} => c.message \in Sent,
           c.at = "edit" => c.message \notin deleted
    PROVE  ConversationInv'
<1>1. Typed'
  BY DEF ConversationInv, Typed, Arrive, messageVars, Sent
<1>2. CallsSound'
  BY OneCall DEF Arrive, messageVars
<1> QED
  BY <1>1, <1>2, SilentIsSafe DEF ConversationInv, Arrive

\* The writes of posts.
LEMMA UpsertStep ==
    ASSUME ConversationInv, NEW r \in Calls, UpsertConversation(r)
    PROVE  ConversationInv'
<1> DEFINE u == call[r].user
<1>1. call[r] \in CallRecord /\ call[r].at = "upsert"
  BY DEF ConversationInv, CallsSound, CallsTyped, UpsertConversation
<1>2. u \in Parties /\ call[r] = [at |-> "upsert", user |-> u]
  BY <1>1 DEF CallRecord
<1>3. [[at |-> "upsert", user |-> u] EXCEPT !.at = "create"] = [at |-> "create", user |-> u]
  OBVIOUS
<1>4. call' = [call EXCEPT ![r] = [at |-> "create", user |-> u]]
  <2>1. call' = [call EXCEPT ![r] = [call[r] EXCEPT !.at = "create"]]
    BY DEF UpsertConversation
  <2> QED
    BY <2>1, <1>2, <1>3, Zenon
<1>5. [at |-> "create", user |-> u] \in CallRecord
  BY <1>2 DEF CallRecord
<1>6. CallsSound'
  <2> DEFINE c == [at |-> "create", user |-> u]
  <2>1. c.at = "create"
    OBVIOUS
  <2> HIDE DEF c
  <2> QED
    BY <1>4, <1>5, <2>1, OneCall DEF UpsertConversation, c
<1>7. Typed'
  BY DEF ConversationInv, Typed, UpsertConversation, Sent
<1> QED
  BY <1>6, <1>7, SilentIsSafe DEF ConversationInv, UpsertConversation

LEMMA CreateStep ==
    ASSUME ConversationInv, NEW r \in Calls, NEW text \in Texts, CreateMessage(r, text)
    PROVE  ConversationInv'
<1> DEFINE u == call[r].user
           n == Len(author) + 1
           c == [at |-> "notify", user |-> u, message |-> n]
<1>1. u \in Parties
  BY CallShapes DEF ConversationInv, CallsSound, CreateMessage
<1>2. Sanitize(text) \in {"plain", "masked"}
  BY DEF Sanitize, Texts
<1>3. /\ author \in Seq(Parties) /\ body \in Seq({"plain", "masked"}) /\ Len(body) = Len(author)
      /\ Len(author) \in Nat
  BY DEF ConversationInv, Typed
<1>4. /\ author' = Append(author, u) /\ author' \in Seq(Parties) /\ Len(author') = n
      /\ author'[n] = u /\ \A m \in Sent : author'[m] = author[m]
  BY <1>1, <1>3 DEF CreateMessage, Sent
<1>5. body' \in Seq({"plain", "masked"}) /\ Len(body') = n
  BY <1>2, <1>3 DEF CreateMessage
<1>6. Sent \subseteq Sent' /\ n \in Sent'
  BY <1>3, <1>4 DEF Sent
<1>7. Typed'
  BY <1>4, <1>5, <1>6 DEF ConversationInv, Typed, CreateMessage
<1>8. c \in CallRecord /\ c.at = "notify" /\ c.user = u /\ c.message = n
  BY <1>1, <1>3 DEF CallRecord
<1>9. call' = [call EXCEPT ![r] = c] /\ deleted' = deleted /\ owner' = owner
  BY DEF CreateMessage
<1> HIDE DEF c, u, n
<1>10. CallsTyped'
  BY <1>8, <1>9 DEF ConversationInv, CallsSound, CallsTyped
<1>11. /\ call'[r] = c
       /\ \A s \in Calls : s # r => call'[s] = call[s]
  BY <1>9 DEF ConversationInv, CallsSound, CallsTyped
<1>12. MessageSent'
  BY <1>6, <1>8, <1>11 DEF ConversationInv, CallsSound, MessageSent
<1>13. author'[n] = u /\ \A m \in Sent : author'[m] = author[m]
  BY <1>4
<1>14. \A s \in Calls : call[s].at \in {"notify", "push"} =>
          call[s].message \in Sent /\ author'[call[s].message] = author[call[s].message]
  BY <1>13 DEF ConversationInv, CallsSound, MessageSent
<1>15. NotifiedByAuthor'
  BY <1>8, <1>11, <1>13, <1>14 DEF ConversationInv, CallsSound, NotifiedByAuthor
<1>16. EditKnows'
  BY <1>8, <1>9, <1>11 DEF ConversationInv, CallsSound, EditKnows
<1>17. DevicesOfOther'
  BY <1>8, <1>9, <1>11, <1>14 DEF ConversationInv, CallsSound, DevicesOfOther
<1> QED
  BY <1>7, <1>10, <1>12, <1>15, <1>16, <1>17, SilentIsSafe
  DEF ConversationInv, CallsSound, CreateMessage

\* A message is notified to the other party's devices, which are not its author's.
LEMMA NotifyStep ==
    ASSUME ConversationInv, NEW r \in Calls, NotifyOtherParty(r)
    PROVE  ConversationInv'
<1> DEFINE u == call[r].user
           m == call[r].message
           ds == SubscriptionsOf(Other(u))
           c == [at |-> "push", message |-> m, devices |-> ds, rows |-> ds, crossed |-> FALSE]
<1>1. u \in Parties /\ m \in Nat /\ m \in Sent /\ u = author[m]
  BY CallShapes DEF ConversationInv, CallsSound, MessageSent, NotifiedByAuthor, NotifyOtherParty
<1>2. Other(u) # u
  BY <1>1 DEF Other, Parties
<1>3. ds \subseteq Devices /\ \A d \in ds : owner[d] # u
  BY <1>2 DEF SubscriptionsOf
<1>4. call' = [call EXCEPT ![r] = c]
  BY DEF NotifyOtherParty
<1> HIDE DEF u, m, ds
<1>5. c \in CallRecord /\ c.at = "push" /\ c.message = m /\ c.devices = ds
  BY <1>1, <1>3 DEF CallRecord
<1> HIDE DEF c
<1>6. author' = author /\ deleted' = deleted /\ owner' = owner
  BY DEF NotifyOtherParty, messageVars
<1>7. CallsSound'
  BY <1>1, <1>3, <1>4, <1>5, <1>6, OneCall
<1>8. Typed'
  BY <1>6 DEF ConversationInv, Typed, NotifyOtherParty, messageVars, Sent
<1> QED
  BY <1>7, <1>8, SilentIsSafe DEF ConversationInv, NotifyOtherParty

\* What the push service got went to devices that are not the author's.
LEMMA SendStep ==
    ASSUME ConversationInv, NEW r \in Calls, SendNotifications(r)
    PROVE  ConversationInv'
<1> DEFINE m == call[r].message
           c == [at |-> "answer", message |-> m]
<1>1. /\ call[r].at = "push" /\ m \in Nat /\ m \in Sent
      /\ call[r].devices \subseteq Devices /\ call[r].rows \subseteq Devices
  BY CallShapes DEF ConversationInv, CallsSound, MessageSent, SendNotifications
<1>2. PICK reached \in SUBSET call[r].devices :
        /\ Emit("push", m, Raw(m), {owner[d] : d \in reached}, call[r].crossed)
        /\ \E gone \in SUBSET (call[r].rows \ reached) :
              /\ owner' = [d \in Devices |-> IF d \in gone THEN Nobody ELSE owner[d]]
              /\ call' = [CallsWithout(gone) EXCEPT ![r] = c]
  BY DEF SendNotifications
<1>3. PICK gone \in SUBSET (call[r].rows \ reached) :
        /\ owner' = [d \in Devices |-> IF d \in gone THEN Nobody ELSE owner[d]]
        /\ call' = [CallsWithout(gone) EXCEPT ![r] = c]
  BY <1>2
<1>4. author' = author /\ deleted' = deleted /\ body' = body /\ lastRead' = lastRead
  BY DEF SendNotifications, messageVars
<1>5. c \in CallRecord /\ c.at = "answer" /\ c.message = m
  BY <1>1 DEF CallRecord
<1>6. ~call[r].crossed => author[m] \notin {owner[d] : d \in reached}
  BY <1>1, <1>2 DEF ConversationInv, CallsSound, DevicesOfOther
<1>7. AuthorNotNotified' /\ DeletedLeavesWithItsPost'
  <2>1. /\ out'.way = "push" /\ out'.message = m /\ out'.crossed = call[r].crossed
        /\ out'.to = {owner[d] : d \in reached}
    BY <1>2 DEF Emit
  <2> HIDE DEF m
  <2> QED
    BY <2>1, <1>4, <1>6 DEF AuthorNotNotified, DeletedLeavesWithItsPost, Reveals
<1> HIDE DEF c, m
<1>8. /\ call' \in [Calls -> CallRecord] /\ call'[r] = c
      /\ \A s \in Calls : s # r => call'[s] = CallsWithout(gone)[s]
  <2>1. /\ DOMAIN CallsWithout(gone) = Calls
        /\ CallsWithout(gone) = [s \in Calls |-> CallsWithout(gone)[s]]
    BY DEF CallsWithout
  <2>2. CallsWithout(gone) \in [Calls -> CallRecord]
    BY <2>1, WithoutShape DEF ConversationInv, CallsSound
  <2> QED
    BY <2>2, <1>3, <1>5
<1>9. \A s \in Calls : s # r =>
        /\ call'[s].at = call[s].at
        /\ call[s].at # "push" => call'[s] = call[s]
        /\ call[s].at = "push" => /\ call'[s].message = call[s].message
                                  /\ call'[s].devices = call[s].devices
                                  /\ call'[s].crossed = call[s].crossed
                                  /\ call[s].devices \subseteq Devices
  BY <1>8, WithoutShape, CallShapes DEF ConversationInv, CallsSound
<1>10. CallsSound'
  <2>1. MessageSent'
    BY <1>1, <1>4, <1>5, <1>8, <1>9 DEF ConversationInv, CallsSound, MessageSent, Sent
  <2>2. NotifiedByAuthor'
    BY <1>4, <1>5, <1>8, <1>9 DEF ConversationInv, CallsSound, NotifiedByAuthor
  <2>3. EditKnows'
    BY <1>4, <1>5, <1>8, <1>9 DEF ConversationInv, CallsSound, EditKnows
  <2>4. \A s \in Calls : call[s].at \in {"push"} => author[call[s].message] # Nobody
    BY ConversationAssumption DEF ConversationInv, CallsSound, Typed, MessageSent, Sent, Parties
  <2>5. \A d \in Devices : owner'[d] = owner[d] \/ owner'[d] = Nobody
    BY <1>3
  <2>6. DevicesOfOther'
    BY <2>4, <2>5, <1>4, <1>5, <1>8, <1>9 DEF ConversationInv, CallsSound, DevicesOfOther
  <2> QED
    BY <2>1, <2>2, <2>3, <2>6, <1>8 DEF CallsSound, CallsTyped
<1>11. Typed'
  BY <1>3, <1>4 DEF ConversationInv, Typed, Sent
<1> QED
  BY <1>7, <1>10, <1>11 DEF ConversationInv

\* A request ends: its rows are as it wrote them, and it waits for nothing.
LEMMA EndStep ==
    ASSUME ConversationInv, NEW r \in Calls, Answer(r), author' = author, deleted' = deleted,
           owner' = owner
    PROVE  CallsSound'
<1> DEFINE c == NoCall
<1>1. c \in CallRecord /\ c.at = "idle" /\ call' = [call EXCEPT ![r] = c]
  BY IdleIsRecord DEF Answer
<1> HIDE DEF c
<1> QED
  BY <1>1, OneCall

LEMMA AnswerStep ==
    ASSUME ConversationInv, NEW r \in Calls, AnswerPost(r)
    PROVE  ConversationInv'
<1>1. author' = author /\ deleted' = deleted /\ owner' = owner
  BY DEF AnswerPost, messageVars
<1>2. CallsSound'
  BY <1>1, EndStep DEF AnswerPost
<1>3. Typed'
  BY <1>1 DEF ConversationInv, Typed, AnswerPost, messageVars, Sent
<1>4. out'.way = "post"
  BY DEF AnswerPost, Emit
<1>5. AuthorNotNotified' /\ DeletedLeavesWithItsPost'
  BY <1>4 DEF AuthorNotNotified, DeletedLeavesWithItsPost, Reveals
<1> QED
  BY <1>2, <1>3, <1>5 DEF ConversationInv

\* The answer to an edit is mapped after the write.
LEMMA EditStep ==
    ASSUME ConversationInv, NEW r \in Calls, NEW text \in Texts, WriteEdit(r, text)
    PROVE  ConversationInv'
<1> DEFINE m == call[r].message
<1>1. author' = author /\ deleted' = deleted /\ owner' = owner /\ lastRead' = lastRead
  BY DEF WriteEdit
<1>2. CallsSound'
  BY <1>1, EndStep DEF WriteEdit
<1>3. m \in Sent
  BY DEF ConversationInv, CallsSound, MessageSent, WriteEdit
<1>4. Sanitize(text) \in {"plain", "masked"}
  BY DEF Sanitize, Texts
<1>5. body' = [body EXCEPT ![m] = Sanitize(text)]
  BY DEF WriteEdit
<1>6. out'.way = "edit" /\ out'.message = m /\ out'.content = ToPublicMessage(m)
  BY DEF WriteEdit, Emit
<1> HIDE DEF m
<1>7. Typed'
  BY <1>1, <1>3, <1>4, <1>5 DEF ConversationInv, Typed, Sent
<1>8. AuthorNotNotified' /\ DeletedLeavesWithItsPost'
  BY <1>1, <1>6 DEF AuthorNotNotified, DeletedLeavesWithItsPost, Reveals, ToPublicMessage
<1> QED
  BY <1>2, <1>7, <1>8 DEF ConversationInv

\* A deletion crosses the edits of its message.
LEMMA DeleteStep ==
    ASSUME ConversationInv, NEW r \in Calls, WriteDelete(r)
    PROVE  ConversationInv'
<1> DEFINE m == call[r].message
           editing == {s \in Calls : call[s].at = "edit" /\ call[s].message = m}
<1>1. author' = author /\ body' = body /\ lastRead' = lastRead /\ owner' = owner
  BY DEF WriteDelete
<1>2. m \in Sent /\ deleted' = deleted \cup {m}
  BY DEF ConversationInv, CallsSound, MessageSent, WriteDelete
<1>3. call' = [s \in Calls |-> IF s = r THEN NoCall ELSE IF s \in editing THEN Crossed(s) ELSE call[s]]
  BY DEF WriteDelete
<1>4. \A s \in Calls : s \in editing <=> call[s].at = "edit" /\ call[s].message = m
  OBVIOUS
<1> HIDE DEF m, editing
<1>5. \A s \in Calls :
        /\ call'[s] \in CallRecord
        /\ call'[s] = call[s] \/ call'[s].at = "idle"
              \/ /\ call[s].at = "edit" /\ call'[s].at = "edit"
                 /\ call'[s].message = call[s].message /\ call'[s].crossed
        /\ call'[s].at = "edit" /\ call'[s].message = m => call'[s].crossed
  <2> TAKE s \in Calls
  <2>1. call[s] \in CallRecord
    BY DEF ConversationInv, CallsSound, CallsTyped
  <2>2. CASE s = r
    BY <1>3, <2>2, IdleIsRecord
  <2>3. CASE s # r /\ s \in editing
    BY <1>3, <1>4, <2>3, CrossedShape DEF ConversationInv, CallsSound
  <2>4. CASE s # r /\ s \notin editing
    BY <1>3, <1>4, <2>1, <2>4
  <2> QED
    BY <2>2, <2>3, <2>4
<1>6. CallsTyped'
  BY <1>3, <1>5 DEF CallsTyped
<1>7. MessageSent'
  BY <1>1, <1>5 DEF ConversationInv, CallsSound, MessageSent, Sent
<1>8. NotifiedByAuthor'
  BY <1>1, <1>5 DEF ConversationInv, CallsSound, NotifiedByAuthor
<1>9. EditKnows'
  BY <1>2, <1>5 DEF ConversationInv, CallsSound, EditKnows
<1>10. DevicesOfOther'
  BY <1>1, <1>5 DEF ConversationInv, CallsSound, DevicesOfOther
<1>11. Typed'
  BY <1>1, <1>2 DEF ConversationInv, Typed, Sent
<1> QED
  BY <1>6, <1>7, <1>8, <1>9, <1>10, <1>11, SilentIsSafe DEF ConversationInv, CallsSound, WriteDelete

LEMMA ReadStep ==
    ASSUME ConversationInv, NEW r \in Calls, WriteRead(r)
    PROVE  ConversationInv'
<1>1. author' = author /\ deleted' = deleted /\ owner' = owner /\ body' = body
  BY DEF WriteRead, messageVars
<1>2. call[r].user \in Parties /\ call[r].date \in Nat
  BY CallShapes DEF ConversationInv, CallsSound, WriteRead
<1>3. Typed'
  BY <1>1, <1>2 DEF ConversationInv, Typed, WriteRead, Sent
<1>4. CallsSound'
  BY <1>1, EndStep DEF WriteRead
<1> QED
  BY <1>3, <1>4, SilentIsSafe DEF ConversationInv, WriteRead

LEMMA FailStep ==
    ASSUME ConversationInv, NEW r \in Calls, CallFails(r)
    PROVE  ConversationInv'
<1>1. author' = author /\ deleted' = deleted /\ owner' = owner
  BY DEF CallFails, messageVars
<1>2. Typed'
  BY <1>1 DEF ConversationInv, Typed, CallFails, messageVars, Sent
<1>3. CallsSound'
  BY <1>1, EndStep DEF CallFails
<1> QED
  BY <1>2, <1>3, SilentIsSafe DEF ConversationInv, CallFails

\* A device that changes hands crosses the notifications to it.
LEMMA SaveStep ==
    ASSUME ConversationInv, NEW d \in Devices, NEW u \in Parties, SaveSubscription(d, u)
    PROVE  ConversationInv'
<1>1. author' = author /\ body' = body /\ lastRead' = lastRead /\ deleted' = deleted
  BY DEF SaveSubscription, messageVars
<1>2. owner' = [owner EXCEPT ![d] = u]
  BY DEF SaveSubscription
<1>3. call' = [s \in Calls |-> IF call[s].at = "push" /\ d \in call[s].devices THEN Crossed(s) ELSE call[s]]
  BY DEF SaveSubscription
<1>4. \A s \in Calls :
        /\ call'[s] \in CallRecord
        /\ \/ call'[s] = call[s] /\ ~(call[s].at = "push" /\ d \in call[s].devices)
           \/ /\ call[s].at = "push" /\ call'[s].at = "push"
              /\ call'[s].message = call[s].message /\ call'[s].crossed
  <2> TAKE s \in Calls
  <2>1. call[s] \in CallRecord
    BY DEF ConversationInv, CallsSound, CallsTyped
  <2>2. CASE call[s].at = "push" /\ d \in call[s].devices
    BY <1>3, <2>2, CrossedShape DEF ConversationInv, CallsSound
  <2>3. CASE ~(call[s].at = "push" /\ d \in call[s].devices)
    BY <1>3, <2>1, <2>3
  <2> QED
    BY <2>2, <2>3
<1>5. CallsTyped'
  BY <1>3, <1>4 DEF CallsTyped
<1>6. MessageSent'
  BY <1>1, <1>4 DEF ConversationInv, CallsSound, MessageSent, Sent
<1>7. NotifiedByAuthor'
  BY <1>1, <1>4 DEF ConversationInv, CallsSound, NotifiedByAuthor
<1>8. EditKnows'
  BY <1>1, <1>4 DEF ConversationInv, CallsSound, EditKnows
<1>9. DevicesOfOther'
  <2>1. \A s \in Calls : call[s].at = "push" => call[s].devices \subseteq Devices
    BY CallShapes DEF ConversationInv, CallsSound
  <2>2. \A e \in Devices : e # d => owner'[e] = owner[e]
    BY <1>2 DEF ConversationInv, Typed
  <2> QED
    BY <2>1, <2>2, <1>1, <1>4 DEF ConversationInv, CallsSound, DevicesOfOther
<1>10. Typed'
  BY <1>1, <1>2 DEF ConversationInv, Typed, Sent
<1> QED
  BY <1>5, <1>6, <1>7, <1>8, <1>9, <1>10, SilentIsSafe DEF ConversationInv, CallsSound, SaveSubscription

\* A device nobody owns is not the author's.
LEMMA RemoveStep ==
    ASSUME ConversationInv, NEW d \in Devices, RemoveSubscription(d)
    PROVE  ConversationInv'
<1>1. author' = author /\ body' = body /\ lastRead' = lastRead /\ deleted' = deleted
  BY DEF RemoveSubscription, messageVars
<1>2. owner' = [owner EXCEPT ![d] = Nobody] /\ call' = CallsWithout({d})
  BY DEF RemoveSubscription
<1>3. \A s \in Calls :
        /\ call'[s] \in CallRecord
        /\ call'[s].at = call[s].at
        /\ call[s].at # "push" => call'[s] = call[s]
        /\ call[s].at = "push" => /\ call'[s].message = call[s].message
                                  /\ call'[s].devices = call[s].devices
                                  /\ call'[s].crossed = call[s].crossed
                                  /\ call[s].devices \subseteq Devices
  BY <1>2, WithoutShape, CallShapes DEF ConversationInv, CallsSound
<1>4. CallsTyped'
  <2>1. call' = [s \in Calls |-> call'[s]]
    BY <1>2 DEF CallsWithout
  <2> QED
    BY <2>1, <1>3 DEF CallsTyped
<1>5. MessageSent'
  BY <1>1, <1>3 DEF ConversationInv, CallsSound, MessageSent, Sent
<1>6. NotifiedByAuthor'
  BY <1>1, <1>3 DEF ConversationInv, CallsSound, NotifiedByAuthor
<1>7. EditKnows'
  BY <1>1, <1>3 DEF ConversationInv, CallsSound, EditKnows
<1>8. DevicesOfOther'
  <2>1. \A s \in Calls : call[s].at \in {"push"} => author[call[s].message] # Nobody
    BY ConversationAssumption DEF ConversationInv, CallsSound, Typed, MessageSent, Sent, Parties
  <2>2. \A e \in Devices : owner'[e] = owner[e] \/ owner'[e] = Nobody
    BY <1>2 DEF ConversationInv, Typed
  <2> QED
    BY <2>1, <2>2, <1>1, <1>3 DEF ConversationInv, CallsSound, DevicesOfOther
<1>9. Typed'
  BY <1>1, <1>2 DEF ConversationInv, Typed, Sent
<1> QED
  BY <1>4, <1>5, <1>6, <1>7, <1>8, <1>9, SilentIsSafe DEF ConversationInv, CallsSound, RemoveSubscription

-----------------------------------------------------------------------------
(* The invariant holds always.                                             *)

LEMMA ConversationInitially == ConversationInit => ConversationInv
<1> SUFFICES ASSUME ConversationInit PROVE ConversationInv
  OBVIOUS
<1>1. \A r \in Calls : call[r] = NoCall
  BY DEF ConversationInit
<1>2. CallsSound
  BY <1>1, IdleIsRecord DEF ConversationInit, CallsSound, CallsTyped, MessageSent, NotifiedByAuthor,
                            EditKnows, DevicesOfOther
<1>3. Typed
  BY DEF ConversationInit, Typed, Sent
<1>4. AuthorNotNotified /\ DeletedLeavesWithItsPost
  BY DEF ConversationInit, AuthorNotNotified, DeletedLeavesWithItsPost, Reveals, Nothing
<1> QED
  BY <1>2, <1>3, <1>4 DEF ConversationInv

LEMMA ArrivalsStep ==
    ASSUME ConversationInv, NEW r \in Calls,
           \/ Start(r) \/ \E u \in Parties : PostMessage(r, u) \/ MarkRead(r, u)
           \/ \E m \in Sent : DeleteMessage(r, m) \/ EditMessage(r, m)
    PROVE  ConversationInv'
<1>1. Len(author) \in Nat /\ Sent \subseteq Nat
  BY DEF ConversationInv, Typed, Sent
<1>2. CASE Start(r)
  <2> DEFINE c == [at |-> "upsert", user |-> "buyer"]
  <2>1. c \in CallRecord /\ c.at = "upsert" /\ Arrive(r, c)
    BY <1>2 DEF CallRecord, Parties, Start
  <2> HIDE DEF c
  <2> QED
    BY <2>1, ArriveStep
<1>3. CASE \E u \in Parties : PostMessage(r, u)
  <2> PICK u \in Parties : PostMessage(r, u)
    BY <1>3
  <2> DEFINE c == [at |-> "create", user |-> u]
  <2>1. c \in CallRecord /\ c.at = "create" /\ Arrive(r, c)
    BY DEF CallRecord, PostMessage
  <2> HIDE DEF c
  <2> QED
    BY <2>1, ArriveStep
<1>4. CASE \E u \in Parties : MarkRead(r, u)
  <2> PICK u \in Parties : MarkRead(r, u)
    BY <1>4
  <2> DEFINE c == [at |-> "markRead", user |-> u, date |-> Len(author)]
  <2>1. c \in CallRecord /\ c.at = "markRead" /\ Arrive(r, c)
    BY <1>1 DEF CallRecord, MarkRead
  <2> HIDE DEF c
  <2> QED
    BY <2>1, ArriveStep
<1>5. CASE \E m \in Sent : DeleteMessage(r, m)
  <2> PICK m \in Sent : DeleteMessage(r, m)
    BY <1>5
  <2> DEFINE c == [at |-> "delete", message |-> m]
  <2>1. c \in CallRecord /\ c.at = "delete" /\ c.message = m /\ Arrive(r, c)
    BY <1>1 DEF CallRecord, DeleteMessage
  <2> HIDE DEF c
  <2> QED
    BY <2>1, ArriveStep
<1>6. CASE \E m \in Sent : EditMessage(r, m)
  <2> PICK m \in Sent : EditMessage(r, m)
    BY <1>6
  <2> DEFINE c == [at |-> "edit", message |-> m, crossed |-> FALSE]
  <2>1. c \in CallRecord /\ c.at = "edit" /\ c.message = m /\ m \notin deleted /\ Arrive(r, c)
    BY <1>1 DEF CallRecord, EditMessage
  <2> HIDE DEF c
  <2> QED
    BY <2>1, ArriveStep
<1> QED
  BY <1>2, <1>3, <1>4, <1>5, <1>6

LEMMA ConversationStep ==
    ASSUME ConversationInv, [ConversationNext]_conversationVars
    PROVE  ConversationInv'
<1>1. ASSUME NEW r \in Calls, Posting(r) PROVE ConversationInv'
  <2>1. CASE Start(r) \/ \E u \in Parties : PostMessage(r, u)
    BY <2>1, ArrivalsStep
  <2>2. CASE UpsertConversation(r)
    BY <2>2, UpsertStep
  <2>3. CASE \E text \in Texts : CreateMessage(r, text)
    BY <2>3, CreateStep
  <2>4. CASE NotifyOtherParty(r)
    BY <2>4, NotifyStep
  <2>5. CASE SendNotifications(r)
    BY <2>5, SendStep
  <2>6. CASE AnswerPost(r)
    BY <2>6, AnswerStep
  <2> QED
    BY <1>1, <2>1, <2>2, <2>3, <2>4, <2>5, <2>6 DEF Posting
<1>2. ASSUME NEW r \in Calls, Editing(r) PROVE ConversationInv'
  <2>1. CASE \E m \in Sent : DeleteMessage(r, m) \/ EditMessage(r, m)
    BY <2>1, ArrivalsStep
  <2>2. CASE WriteDelete(r)
    BY <2>2, DeleteStep
  <2>3. CASE \E text \in Texts : WriteEdit(r, text)
    BY <2>3, EditStep
  <2> QED
    BY <1>2, <2>1, <2>2, <2>3 DEF Editing
<1>3. ASSUME NEW r \in Calls, Reading(r) PROVE ConversationInv'
  BY <1>3, ReadStep, ArrivalsStep DEF Reading
<1>4. ASSUME NEW r \in Calls, CallFails(r) PROVE ConversationInv'
  BY <1>4, FailStep
<1>5. CASE Subscribing
  BY <1>5, SaveStep, RemoveStep DEF Subscribing
<1>6. CASE UNCHANGED conversationVars
  BY <1>6 DEF conversationVars, messageVars, ConversationInv, Typed, CallsSound, CallsTyped,
              MessageSent, NotifiedByAuthor, EditKnows, DevicesOfOther, AuthorNotNotified,
              DeletedLeavesWithItsPost, Reveals, Sent
<1> QED
  BY <1>1, <1>2, <1>3, <1>4, <1>5, <1>6 DEF ConversationNext

\* In every reachable state a request works on a message that was sent, an
\* edit whose message was deleted knows it, and a notification on its way
\* that nobody crossed goes to devices of the other party.
THEOREM ConversationInvariance == ConversationSpec => []ConversationInv
BY ConversationInitially, ConversationStep, PTL DEF ConversationSpec

\* The notification of a message never reaches its author's devices, for any
\* number of devices and requests, whatever the push service answers.
THEOREM NotificationsGoToTheOther == ConversationSpec => []AuthorNotNotified
<1>1. ConversationInv => AuthorNotNotified
  BY DEF ConversationInv
<1> QED
  BY <1>1, ConversationInvariance, PTL

\* No edit, in whatever order it crosses the deletion, answers with a deleted text.
THEOREM DeletedStaysInside == ConversationSpec => []DeletedLeavesWithItsPost
<1>1. ConversationInv => DeletedLeavesWithItsPost
  BY DEF ConversationInv
<1> QED
  BY <1>1, ConversationInvariance, PTL

-----------------------------------------------------------------------------
(* Types: a date is never ahead of the messages.                           *)

\* The date a read took is not ahead of the messages sent since.
DatesPast == \A r \in Calls : call[r].at = "markRead" => call[r].date <= Len(author)

LEMMA TypesStep ==
    ASSUME ConversationInv, ConversationTypeOK, DatesPast, [ConversationNext]_conversationVars
    PROVE  ConversationTypeOK' /\ DatesPast'
<1> DEFINE Rows == /\ opened' \in BOOLEAN
                   /\ Len(author') <= MaxMessages
                   /\ Len(author) <= Len(author')
                   /\ \A u \in Parties : lastRead'[u] <= Len(author')
                   /\ out' # Nothing => /\ out'.way \in {"push", "post", "edit"}
                                        /\ out'.message \in Sent'
                                        /\ out'.content \in {"text", "null"}
                                        /\ out'.to \subseteq Parties \cup {Nobody}
           Dates == \A r \in Calls : call'[r].at = "markRead" =>
                      call'[r] = call[r] \/ call'[r].date = Len(author)
<1>1. ConversationInv'
  BY ConversationStep
<1>2. /\ Len(author) \in Nat /\ Len(author') \in Nat /\ MaxMessages \in Nat
      /\ \A m \in Sent : author[m] \in Parties
      /\ lastRead \in [Parties -> Nat]
      /\ owner \in [Devices -> Parties \cup {Nobody}]
  BY <1>1, ConversationAssumption DEF ConversationInv, Typed, Sent
<1>3. \A u \in Parties : lastRead[u] <= Len(author)
  BY DEF ConversationTypeOK
<1>4. Rows /\ Dates => ConversationTypeOK' /\ DatesPast'
  <2> SUFFICES ASSUME Rows, Dates PROVE ConversationTypeOK' /\ DatesPast'
    OBVIOUS
  <2>1. DatesPast'
    <3> SUFFICES ASSUME NEW r \in Calls, call'[r].at = "markRead"
                 PROVE  call'[r].date <= Len(author')
      BY DEF DatesPast
    <3>1. CASE call'[r] = call[r]
      <4>1. call[r].date \in Nat /\ call[r].date <= Len(author)
        BY <3>1, CallShapes DEF ConversationInv, CallsSound, DatesPast
      <4> QED
        BY <3>1, <4>1, <1>2
    <3>2. CASE call'[r].date = Len(author)
      BY <3>2, <1>2
    <3> QED
      BY <3>1, <3>2
  <2>2. \A r \in Calls : call'[r].at \in {"idle", "upsert", "create", "notify", "push", "answer",
                                          "edit", "delete", "markRead"}
    BY <1>1 DEF ConversationInv, CallsSound, CallsTyped, CallRecord
  <2>3. lastRead' \in [Parties -> 0 .. Len(author')]
    <3>1. lastRead' \in [Parties -> Nat]
      BY <1>1 DEF ConversationInv, Typed
    <3>2. \A u \in Parties : lastRead'[u] \in 0 .. Len(author')
      BY <3>1, <1>2
    <3> QED
      BY <3>1, <3>2
  <2>4. /\ Len(body') = Len(author') /\ deleted' \subseteq Sent'
        /\ owner' \in [Devices -> Parties \cup {Nobody}]
        /\ \A m \in Sent' : author'[m] \in Parties /\ body'[m] \in {"plain", "masked"}
    BY <1>1 DEF ConversationInv, Typed, Sent
  <2> QED
    BY <2>1, <2>2, <2>3, <2>4 DEF ConversationTypeOK
<1>5. Silent => out' = Nothing
  BY DEF Silent
<1>6. ASSUME NEW r \in Calls, NEW c, Arrive(r, c), c.at = "markRead" => c.date = Len(author)
      PROVE  Rows /\ Dates
  BY <1>2, <1>3, <1>5, <1>6 DEF Arrive, messageVars, ConversationTypeOK, ConversationInv, CallsSound, CallsTyped
<1>7. ASSUME NEW r \in Calls, Posting(r) PROVE Rows /\ Dates
  <2>1. CASE Start(r)
    <3>1. [at |-> "upsert", user |-> "buyer"].at = "upsert"
      OBVIOUS
    <3> QED
      BY <2>1, <3>1, <1>6 DEF Start
  <2>2. CASE \E u \in Parties : PostMessage(r, u)
    <3> PICK u \in Parties : PostMessage(r, u)
      BY <2>2
    <3>1. [at |-> "create", user |-> u].at = "create"
      OBVIOUS
    <3> QED
      BY <3>1, <1>6 DEF PostMessage
  <2>3. CASE UpsertConversation(r)
    <3>1. /\ opened' = TRUE /\ author' = author /\ lastRead' = lastRead /\ out' = Nothing
          /\ \A s \in Calls : s # r => call'[s] = call[s]
      BY <2>3 DEF UpsertConversation, Silent, ConversationInv, CallsSound, CallsTyped
    <3>2. call'[r].at = "create"
      BY <2>3, CallShapes DEF UpsertConversation, ConversationInv, CallsSound, CallsTyped, CallRecord
    <3> QED
      BY <3>1, <3>2, <1>2, <1>3 DEF ConversationTypeOK
  <2>4. CASE \E text \in Texts : CreateMessage(r, text)
    <3>1. /\ opened' = opened /\ Len(author) < MaxMessages /\ Len(author') = Len(author) + 1
          /\ lastRead' = lastRead /\ out' = Nothing
      BY <2>4, <1>1 DEF CreateMessage, Silent, ConversationInv, Typed
    <3>2. \A s \in Calls : call'[s].at = "markRead" => call'[s] = call[s]
      BY <2>4 DEF CreateMessage, ConversationInv, CallsSound, CallsTyped
    <3> QED
      BY <3>1, <3>2, <1>2, <1>3 DEF ConversationTypeOK
  <2>5. CASE NotifyOtherParty(r)
    <3>1. opened' = opened /\ author' = author /\ lastRead' = lastRead /\ out' = Nothing
      BY <2>5 DEF NotifyOtherParty, messageVars, Silent
    <3>2. \A s \in Calls : call'[s].at = "markRead" => call'[s] = call[s]
      BY <2>5 DEF NotifyOtherParty, ConversationInv, CallsSound, CallsTyped
    <3> QED
      BY <3>1, <3>2, <1>2, <1>3 DEF ConversationTypeOK
  <2>6. CASE SendNotifications(r)
    <3>1. opened' = opened /\ author' = author /\ lastRead' = lastRead
      BY <2>6 DEF SendNotifications, messageVars
    <3>2. call[r].at = "push" /\ call[r].message \in Sent /\ call[r].devices \subseteq Devices
      BY <2>6, CallShapes DEF SendNotifications, ConversationInv, CallsSound, MessageSent
    <3>3. PICK reached \in SUBSET call[r].devices :
            Emit("push", call[r].message, Raw(call[r].message), {owner[d] : d \in reached}, call[r].crossed)
      BY <2>6 DEF SendNotifications
    <3>4. /\ out'.way = "push" /\ out'.message = call[r].message /\ out'.content = "text"
          /\ out'.to = {owner[d] : d \in reached}
      BY <3>3 DEF Emit, Raw
    <3>5. out'.to \subseteq Parties \cup {Nobody}
      BY <3>2, <3>4, <1>2
    <3>6. \A s \in Calls : call'[s].at = "markRead" => call'[s] = call[s]
      <4>1. PICK gone : call' = [CallsWithout(gone) EXCEPT ![r] = [at |-> "answer",
                                                                    message |-> call[r].message]]
        BY <2>6 DEF SendNotifications
      <4>2. DOMAIN CallsWithout(gone) = Calls
        BY DEF CallsWithout
      <4>3. call'[r].at = "answer" /\ \A s \in Calls : s # r => call'[s] = CallsWithout(gone)[s]
        BY <4>1, <4>2
      <4> QED
        BY <4>3, WithoutShape DEF ConversationInv, CallsSound
    <3>7. Sent' = Sent
      BY <3>1 DEF Sent
    <3> QED
      BY <3>1, <3>2, <3>4, <3>5, <3>6, <3>7, <1>2, <1>3 DEF ConversationTypeOK
  <2>7. CASE AnswerPost(r)
    <3>1. opened' = opened /\ author' = author /\ lastRead' = lastRead
      BY <2>7 DEF AnswerPost, messageVars
    <3>2. call[r].message \in Sent
      BY <2>7 DEF AnswerPost, ConversationInv, CallsSound, MessageSent
    <3>3. /\ out'.way = "post" /\ out'.message = call[r].message /\ out'.content = "text"
          /\ out'.to = {author[call[r].message]}
      BY <2>7 DEF AnswerPost, Emit, Raw
    <3>4. \A s \in Calls : call'[s].at = "markRead" => call'[s] = call[s]
      BY <2>7 DEF AnswerPost, Answer, NoCall, ConversationInv, CallsSound, CallsTyped
    <3>5. Sent' = Sent
      BY <3>1 DEF Sent
    <3> QED
      BY <3>1, <3>2, <3>3, <3>4, <3>5, <1>2, <1>3 DEF ConversationTypeOK
  <2> QED
    BY <1>7, <2>1, <2>2, <2>3, <2>4, <2>5, <2>6, <2>7 DEF Posting
<1>8. ASSUME NEW r \in Calls, Editing(r) PROVE Rows /\ Dates
  <2>1. CASE \E m \in Sent : DeleteMessage(r, m)
    <3> PICK m \in Sent : DeleteMessage(r, m)
      BY <2>1
    <3>1. [at |-> "delete", message |-> m].at = "delete"
      OBVIOUS
    <3> QED
      BY <3>1, <1>6 DEF DeleteMessage
  <2>2. CASE \E m \in Sent : EditMessage(r, m)
    <3> PICK m \in Sent : EditMessage(r, m)
      BY <2>2
    <3>1. [at |-> "edit", message |-> m, crossed |-> FALSE].at = "edit"
      OBVIOUS
    <3> QED
      BY <3>1, <1>6 DEF EditMessage
  <2>3. CASE WriteDelete(r)
    <3>1. opened' = opened /\ author' = author /\ lastRead' = lastRead /\ out' = Nothing
      BY <2>3 DEF WriteDelete, Silent
    <3>2. \A s \in Calls : call'[s].at = "markRead" => call'[s] = call[s]
      <4>1. \A s \in Calls : \/ call'[s] = NoCall \/ call'[s] = call[s]
                             \/ call[s].at = "edit" /\ call'[s] = Crossed(s)
        BY <2>3 DEF WriteDelete
      <4> QED
        BY <4>1, CrossedShape, IdleIsRecord DEF ConversationInv, CallsSound
    <3> QED
      BY <3>1, <3>2, <1>2, <1>3 DEF ConversationTypeOK
  <2>4. CASE \E text \in Texts : WriteEdit(r, text)
    <3>1. opened' = opened /\ author' = author /\ lastRead' = lastRead
      BY <2>4 DEF WriteEdit
    <3>2. call[r].message \in Sent
      BY <2>4 DEF WriteEdit, ConversationInv, CallsSound, MessageSent
    <3>3. /\ out'.way = "edit" /\ out'.message = call[r].message /\ out'.content \in {"text", "null"}
          /\ out'.to = {author[call[r].message]}
      BY <2>4 DEF WriteEdit, Emit, ToPublicMessage
    <3>4. \A s \in Calls : call'[s].at = "markRead" => call'[s] = call[s]
      BY <2>4 DEF WriteEdit, Answer, NoCall, ConversationInv, CallsSound, CallsTyped
    <3>5. Sent' = Sent
      BY <3>1 DEF Sent
    <3> QED
      BY <3>1, <3>2, <3>3, <3>4, <3>5, <1>2, <1>3 DEF ConversationTypeOK
  <2> QED
    BY <1>8, <2>1, <2>2, <2>3, <2>4 DEF Editing
<1>9. ASSUME NEW r \in Calls, Reading(r) PROVE Rows /\ Dates
  <2>1. CASE \E u \in Parties : MarkRead(r, u)
    <3> PICK u \in Parties : MarkRead(r, u)
      BY <2>1
    <3>1. [at |-> "markRead", user |-> u, date |-> Len(author)].date = Len(author)
      OBVIOUS
    <3> QED
      BY <3>1, <1>6 DEF MarkRead
  <2>2. CASE WriteRead(r)
    <3>1. opened' = opened /\ author' = author /\ out' = Nothing
      BY <2>2 DEF WriteRead, messageVars, Silent
    <3>2. call[r].user \in Parties /\ call[r].date \in Nat /\ call[r].date <= Len(author)
      BY <2>2, CallShapes DEF WriteRead, ConversationInv, CallsSound, DatesPast
    <3>3. lastRead' = [lastRead EXCEPT ![call[r].user] = call[r].date]
      BY <2>2 DEF WriteRead
    <3>4. \A u \in Parties : lastRead'[u] <= Len(author)
      BY <3>2, <3>3, <1>2, <1>3
    <3>5. \A s \in Calls : call'[s].at = "markRead" => call'[s] = call[s]
      BY <2>2 DEF WriteRead, Answer, NoCall, ConversationInv, CallsSound, CallsTyped
    <3> QED
      BY <3>1, <3>4, <3>5, <1>2 DEF ConversationTypeOK
  <2> QED
    BY <1>9, <2>1, <2>2 DEF Reading
<1>10. ASSUME NEW r \in Calls, CallFails(r) PROVE Rows /\ Dates
  <2>1. opened' = opened /\ author' = author /\ lastRead' = lastRead /\ out' = Nothing
    BY <1>10 DEF CallFails, messageVars, Silent
  <2>2. \A s \in Calls : call'[s].at = "markRead" => call'[s] = call[s]
    BY <1>10 DEF CallFails, Answer, NoCall, ConversationInv, CallsSound, CallsTyped
  <2> QED
    BY <2>1, <2>2, <1>2, <1>3 DEF ConversationTypeOK
<1>11. ASSUME Subscribing PROVE Rows /\ Dates
  <2>1. opened' = opened /\ author' = author /\ lastRead' = lastRead /\ out' = Nothing
    BY <1>11 DEF Subscribing, SaveSubscription, RemoveSubscription, messageVars, Silent
  <2>2. \A s \in Calls : call'[s].at = "markRead" => call'[s] = call[s]
    <3>1. ASSUME NEW d \in Devices, NEW u \in Parties, SaveSubscription(d, u), NEW s \in Calls
          PROVE  call'[s] = call[s] \/ (call[s].at = "push" /\ call'[s] = Crossed(s))
      BY <3>1 DEF SaveSubscription
    <3>2. ASSUME NEW d \in Devices, RemoveSubscription(d), NEW s \in Calls
          PROVE  call'[s] = call[s] \/ call'[s].at = "push"
      BY <3>2, WithoutShape DEF RemoveSubscription, ConversationInv, CallsSound
    <3> QED
      BY <3>1, <3>2, <1>11, CrossedShape DEF Subscribing, ConversationInv, CallsSound
  <2> QED
    BY <2>1, <2>2, <1>2, <1>3 DEF ConversationTypeOK
<1>12. CASE UNCHANGED conversationVars
  BY <1>12 DEF conversationVars, messageVars, ConversationTypeOK, DatesPast, Sent
<1> HIDE DEF Rows, Dates
<1> QED
  BY <1>4, <1>7, <1>8, <1>9, <1>10, <1>11, <1>12 DEF ConversationNext

\* The types of Conversations, in every reachable state: nobody has read
\* further than the last message.
THEOREM ConversationTypeCorrect == ConversationSpec => []ConversationTypeOK
<1>1. ConversationInit => ConversationTypeOK /\ DatesPast
  <2> SUFFICES ASSUME ConversationInit PROVE ConversationTypeOK /\ DatesPast
    OBVIOUS
  <2>1. \A r \in Calls : call[r].at = "idle"
    BY DEF ConversationInit, NoCall
  <2>2. Len(author) = 0 /\ MaxMessages \in Nat
    BY ConversationAssumption DEF ConversationInit
  <2>3. /\ opened = FALSE /\ Len(body) = Len(author) /\ deleted = {} /\ out = Nothing
        /\ owner \in [Devices -> Parties \cup {Nobody}]
    BY DEF ConversationInit
  <2>4. Sent = {}
    BY <2>2 DEF Sent
  <2>5. lastRead \in [Parties -> 0 .. Len(author)]
    BY <2>2 DEF ConversationInit
  <2>6. DatesPast
    BY <2>1 DEF DatesPast
  <2>7. opened \in BOOLEAN
    BY DEF ConversationInit
  <2>10. Len(author) <= MaxMessages
    BY <2>2
  <2>8. \A m \in Sent : author[m] \in Parties /\ body[m] \in {"plain", "masked"}
    BY <2>4
  <2>9. deleted \subseteq Sent /\ (\A r \in Calls : call[r].at \in {"idle", "upsert", "create", "notify",
                                                  "push", "answer", "edit", "delete", "markRead"})
    BY <2>1, <2>3
  <2> QED
    BY <2>3, <2>5, <2>6, <2>7, <2>8, <2>9, <2>10 DEF ConversationTypeOK
<1>2. ConversationInv /\ ConversationTypeOK /\ DatesPast /\ [ConversationNext]_conversationVars
        => (ConversationTypeOK /\ DatesPast)'
  BY TypesStep
<1> QED
  BY <1>1, <1>2, ConversationInvariance, PTL DEF ConversationSpec

-----------------------------------------------------------------------------
(* The text of a deleted message.                                          *)

LEMMA DeletedTextStep ==
    ASSUME ConversationInv, ConversationNext, NEW m \in deleted, body'[m] # body[m]
    PROVE  \E r \in Calls : call[r].at = "edit" /\ call[r].message = m /\ call[r].crossed
<1>1. /\ m \in 1 .. Len(body) /\ body \in Seq({"plain", "masked"})
  BY DEF ConversationInv, Typed, Sent
<1>2. ASSUME NEW r \in Calls, NEW text \in Texts, WriteEdit(r, text)
      PROVE  call[r].at = "edit" /\ call[r].message = m /\ call[r].crossed
  <2>1. call[r].at = "edit" /\ call[r].message = m
    BY <1>1, <1>2 DEF WriteEdit
  <2> QED
    BY <2>1 DEF ConversationInv, CallsSound, EditKnows
<1>3. ASSUME NEW r \in Calls, NEW text \in Texts, CreateMessage(r, text)
      PROVE  FALSE
  <2>1. body' = Append(body, Sanitize(text)) /\ Sanitize(text) \in {"plain", "masked"}
    BY <1>3 DEF CreateMessage, Sanitize, Texts
  <2> QED
    BY <1>1, <2>1
<1> QED
  BY <1>2, <1>3 DEF ConversationNext, Posting, Editing, Reading, Subscribing, CallFails, Start,
     PostMessage, UpsertConversation, NotifyOtherParty, SendNotifications, AnswerPost, DeleteMessage,
     EditMessage, WriteDelete, WriteRead, MarkRead, SaveSubscription, RemoveSubscription, Arrive,
     messageVars

\* The text a message had when it was deleted is kept, unless an edit was in
\* flight: no later request, of either party, changes it.
THEOREM DeletedTextLasts == ConversationSpec => DeletedTextKept
<1>1. ConversationInv /\ [ConversationNext]_conversationVars =>
         [\A m \in deleted : body'[m] # body[m] =>
             \E r \in Calls : /\ call[r].at = "edit" /\ call[r].message = m
                            /\ call[r].crossed]_conversationVars
  BY DeletedTextStep
<1> QED
  BY <1>1, ConversationInvariance, PTL DEF ConversationSpec, DeletedTextKept

-----------------------------------------------------------------------------
(* The badge.                                                              *)

LEMMA BadgeStep ==
    ASSUME ConversationInv, ConversationNext, NEW u \in Parties, ~Unread(u), Unread(u)'
    PROVE  \/ Len(author') = Len(author) + 1 /\ author'[Len(author')] = Other(u)
           \/ \E r \in Calls : /\ call[r].at = "markRead" /\ call[r].user = u
                               /\ call[r].date < lastRead[u]
<1>1. /\ author \in Seq(Parties) /\ Len(author) \in Nat /\ lastRead \in [Parties -> Nat]
  BY DEF ConversationInv, Typed
<1>2. ~(author' = author /\ lastRead' = lastRead)
  BY DEF Unread
<1>3. ASSUME NEW r \in Calls, NEW text \in Texts, CreateMessage(r, text)
      PROVE  Len(author') = Len(author) + 1 /\ author'[Len(author')] = Other(u)
  <2>1. call[r].user \in Parties /\ author' = Append(author, call[r].user)
    BY <1>3, CallShapes DEF ConversationInv, CallsSound, CreateMessage
  <2>2. Len(author') = Len(author) + 1 /\ author'[Len(author')] = call[r].user
    BY <1>1, <2>1
  <2>3. call[r].user # u
    BY <2>2 DEF Unread
  <2> QED
    BY <2>1, <2>2, <2>3 DEF Other, Parties
<1>4. ASSUME NEW r \in Calls, WriteRead(r)
      PROVE  call[r].at = "markRead" /\ call[r].user = u /\ call[r].date < lastRead[u]
  <2>1. /\ call[r].at = "markRead" /\ call[r].user \in Parties /\ call[r].date \in Nat
        /\ author' = author /\ lastRead' = [lastRead EXCEPT ![call[r].user] = call[r].date]
    BY <1>4, CallShapes DEF ConversationInv, CallsSound, WriteRead, messageVars
  <2>2. ~(lastRead[u] < Len(author)) /\ lastRead'[u] < Len(author)
    BY <2>1 DEF Unread
  <2> QED
    BY <1>1, <2>1, <2>2
<1> QED
  BY <1>2, <1>3, <1>4 DEF ConversationNext, Posting, Editing, Reading, Subscribing, CallFails, Start,
     PostMessage, UpsertConversation, NotifyOtherParty, SendNotifications, AnswerPost, DeleteMessage,
     EditMessage, WriteDelete, WriteEdit, MarkRead, SaveSubscription, RemoveSubscription, Arrive,
     messageVars

\* A conversation that was read comes back to the badge by a message of the
\* other party, or by a read that lands after a later one, and by no edit,
\* deletion or message of one's own.
THEOREM BadgeMeansNewMessage == ConversationSpec => BadgeOnlyByNewMessage
<1>1. ConversationInv /\ [ConversationNext]_conversationVars =>
         [\A u \in Parties : ~Unread(u) /\ Unread(u)' =>
             \/ Len(author') = Len(author) + 1 /\ author'[Len(author')] = Other(u)
             \/ \E r \in Calls : /\ call[r].at = "markRead" /\ call[r].user = u
                                 /\ call[r].date < lastRead[u]]_conversationVars
  BY BadgeStep
<1> QED
  BY <1>1, ConversationInvariance, PTL DEF ConversationSpec, BadgeOnlyByNewMessage

=============================================================================

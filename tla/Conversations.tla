---------------------------- MODULE Conversations ----------------------------
(***************************************************************************)
(* One conversation between a buyer and the seller of a listing            *)
(* (src/src/conversations), with the push notifications it sends           *)
(* (src/src/notifications/push.service.ts).  Conversations share nothing   *)
(* but the devices, so one stands for all.                                 *)
(*                                                                         *)
(* Messages are numbered in the order of sentAt, and a date is the number  *)
(* of messages sent by then.  A request reads and checks at its arrival;   *)
(* it keeps the date and the message of that moment while it waits for its *)
(* writes and, when it posts, for the push service.  Its text meets no     *)
(* other state before the write, and is chosen there.                      *)
(***************************************************************************)
EXTENDS Naturals, Sequences, FiniteSets

CONSTANTS
    MaxMessages,  \* messages of the conversation (a bound)
    Calls,        \* concurrent HTTP requests
    Devices,      \* browsers, by the endpoint of their push subscription
    Nobody        \* owner of a device that is not subscribed

ASSUME ConversationAssumption == MaxMessages \in Nat /\ Nobody \notin {"buyer", "seller"}

VARIABLES
    opened,      \* does the Conversation row exist?
    author,      \* Message.authorId of the messages sent so far, a sequence
    body,        \* Message.body of each
    deleted,     \* messages whose deletedAt is set
    lastRead,    \* buyerLastReadAt and sellerLastReadAt, 0 for null
    owner,       \* PushSubscription.userId of a device
    call,        \* what each request is doing; crossed: was the row it has read changed since?
    out          \* what the last step sent out: the text or not, whose message, which way, to whom

messageVars == <<opened, author, body, deleted>>
conversationVars == <<messageVars, lastRead, owner, call, out>>

Parties == {"buyer", "seller"}
Other(u) == IF u = "buyer" THEN "seller" ELSE "buyer"
Sent == 1 .. Len(author)
NoCall == [at |-> "idle"]
Nothing == [way |-> "none"]

\* What a user types, and what is kept of it.
Texts == {"plain", "with contact"}
Sanitize(text) == IF text = "with contact" THEN "masked" ELSE text

\* What a reader gets of message m, and of a row that is not mapped.
ToPublicMessage(m) == IF m \in deleted THEN "null" ELSE "text"
Raw(m) == "text"
Emit(way, m, content, users, crossed) ==
    out' = [way |-> way, message |-> m, content |-> content, to |-> users, crossed |-> crossed]
Silent == out' = Nothing

\* Is the conversation in u's unread count?  Its last message alone decides.
Unread(u) ==
    /\ author # <<>>
    /\ author[Len(author)] # u
    /\ lastRead[u] < Len(author)

ConversationInit ==
    /\ opened = FALSE
    /\ author = <<>>
    /\ body = <<>>
    /\ deleted = {}
    /\ lastRead = [u \in Parties |-> 0]
    /\ owner = [d \in Devices |-> Nobody]
    /\ call = [r \in Calls |-> NoCall]
    /\ out = Nothing

-----------------------------------------------------------------------------
Arrive(r, c) ==
    /\ call[r] = NoCall
    /\ call' = [call EXCEPT ![r] = c]
    /\ Silent
    /\ UNCHANGED <<messageVars, lastRead, owner>>

Answer(r) == call' = [call EXCEPT ![r] = NoCall]
Crossed(s) == [call[s] EXCEPT !.crossed = TRUE]

\* POST /conversations: the buyer writes about the listing.
Start(r) ==
    /\ Arrive(r, [at |-> "upsert", user |-> "buyer"])

UpsertConversation(r) ==
    /\ call[r].at = "upsert"
    /\ opened' = TRUE
    /\ call' = [call EXCEPT ![r].at = "create"]
    /\ Silent
    /\ UNCHANGED <<author, body, deleted, lastRead, owner>>

\* POST /conversations/:id/messages by either party.
PostMessage(r, u) ==
    /\ opened
    /\ Arrive(r, [at |-> "create", user |-> u])

CreateMessage(r, text) ==
    /\ call[r].at = "create"
    /\ Len(author) < MaxMessages
    /\ author' = Append(author, call[r].user)
    /\ body' = Append(body, Sanitize(text))
    /\ call' = [call EXCEPT ![r] = [at |-> "notify", user |-> call[r].user,
                                    message |-> Len(author) + 1]]
    /\ Silent
    /\ UNCHANGED <<opened, deleted, lastRead, owner>>

SubscriptionsOf(u) == {d \in Devices : owner[d] = u}

\* Mutation of NotifyOtherParty: the author's own devices.
NotifyAuthor(r) ==
    /\ call[r].at = "notify"
    /\ LET ds == SubscriptionsOf(call[r].user) IN
       call' = [call EXCEPT ![r] = [at |-> "push", message |-> call[r].message, devices |-> ds,
                                    rows |-> ds, crossed |-> FALSE]]
    /\ Silent
    /\ UNCHANGED <<messageVars, lastRead, owner>>

\* sendToUser reads the other party's devices.
NotifyOtherParty(r) ==
    /\ call[r].at = "notify"
    /\ LET ds == SubscriptionsOf(Other(call[r].user)) IN
       call' = [call EXCEPT ![r] = [at |-> "push", message |-> call[r].message, devices |-> ds,
                                    rows |-> ds, crossed |-> FALSE]]
    /\ Silent
    /\ UNCHANGED <<messageVars, lastRead, owner>>

\* The calls when the subscriptions ds are deleted: an endpoint that subscribes
\* again gets another row.
CallsWithout(ds) ==
    [s \in Calls |-> IF call[s].at = "push" THEN [call[s] EXCEPT !.rows = @ \ ds] ELSE call[s]]

\* The push service takes the preview for each device, refuses it, or says
\* 404 or 410 and the row that was read is deleted; its errors stay in here,
\* and nothing is sent when push is not configured.
SendNotifications(r) ==
    /\ call[r].at = "push"
    /\ LET m == call[r].message IN
       \E reached \in SUBSET call[r].devices :
          /\ Emit("push", m, Raw(m), {owner[d] : d \in reached}, call[r].crossed)
          /\ \E gone \in SUBSET (call[r].rows \ reached) :
                /\ owner' = [d \in Devices |-> IF d \in gone THEN Nobody ELSE owner[d]]
                /\ call' = [CallsWithout(gone) EXCEPT ![r] = [at |-> "answer", message |-> m]]
    /\ UNCHANGED <<messageVars, lastRead>>

\* The answer to a post is the row as it was created.
AnswerPost(r) ==
    /\ call[r].at = "answer"
    /\ Emit("post", call[r].message, Raw(call[r].message), {author[call[r].message]}, FALSE)
    /\ Answer(r)
    /\ UNCHANGED <<messageVars, lastRead, owner>>

\* Mutation of EditMessage: a deleted message can still be edited.
EditAnyMessage(r, m) ==
    /\ Arrive(r, [at |-> "edit", message |-> m, crossed |-> FALSE])

\* PATCH .../messages/:messageId by its author.
EditMessage(r, m) ==
    /\ m \notin deleted
    /\ Arrive(r, [at |-> "edit", message |-> m, crossed |-> FALSE])

\* Mutation of WriteEdit: the answer is the updated row.
WriteEditRaw(r, text) ==
    /\ call[r].at = "edit"
    /\ body' = [body EXCEPT ![call[r].message] = Sanitize(text)]
    /\ Emit("edit", call[r].message, Raw(call[r].message), {author[call[r].message]}, FALSE)
    /\ Answer(r)
    /\ UNCHANGED <<opened, author, deleted, lastRead, owner>>

WriteEdit(r, text) ==
    /\ call[r].at = "edit"
    /\ LET m == call[r].message IN
       /\ body' = [body EXCEPT ![m] = Sanitize(text)]
       /\ Emit("edit", m, ToPublicMessage(m), {author[m]}, call[r].crossed)
    /\ Answer(r)
    /\ UNCHANGED <<opened, author, deleted, lastRead, owner>>

\* DELETE .../messages/:messageId by its author; a message deleted already
\* is left as it is.
DeleteMessage(r, m) ==
    /\ m \notin deleted
    /\ Arrive(r, [at |-> "delete", message |-> m])

WriteDelete(r) ==
    /\ call[r].at = "delete"
    /\ LET m == call[r].message
           editing == {s \in Calls : call[s].at = "edit" /\ call[s].message = m} IN
       /\ deleted' = deleted \cup {m}
       /\ call' = [s \in Calls |-> IF s = r THEN NoCall ELSE IF s \in editing THEN Crossed(s) ELSE call[s]]
    /\ Silent
    /\ UNCHANGED <<opened, author, body, lastRead, owner>>

\* Mutation of MarkRead: the date is ahead of the messages.
MarkReadAhead(r, u) ==
    /\ opened
    /\ Arrive(r, [at |-> "markRead", user |-> u, date |-> Len(author) + 1])

\* POST /conversations/:id/read: the date is taken before the write.
MarkRead(r, u) ==
    /\ opened
    /\ Arrive(r, [at |-> "markRead", user |-> u, date |-> Len(author)])

\* Mutation of WriteRead: the date of the other party is written.
WriteReadSwapped(r) ==
    /\ call[r].at = "markRead"
    /\ lastRead' = [lastRead EXCEPT ![Other(call[r].user)] = call[r].date]
    /\ Answer(r)
    /\ Silent
    /\ UNCHANGED <<messageVars, owner>>

WriteRead(r) ==
    /\ call[r].at = "markRead"
    /\ lastRead' = [lastRead EXCEPT ![call[r].user] = call[r].date]
    /\ Answer(r)
    /\ Silent
    /\ UNCHANGED <<messageVars, owner>>

\* An await of the database throws, or the process stops.
CallFails(r) ==
    /\ call[r] # NoCall
    /\ Answer(r)
    /\ Silent
    /\ UNCHANGED <<messageVars, lastRead, owner>>

\* POST and DELETE /notifications/subscribe: an endpoint is upserted, it may
\* have been another user's.
SaveSubscription(d, u) ==
    /\ owner[d] # u
    /\ owner' = [owner EXCEPT ![d] = u]
    /\ call' = [s \in Calls |-> IF call[s].at = "push" /\ d \in call[s].devices THEN Crossed(s) ELSE call[s]]
    /\ Silent
    /\ UNCHANGED <<messageVars, lastRead>>

RemoveSubscription(d) ==
    /\ owner[d] # Nobody
    /\ owner' = [owner EXCEPT ![d] = Nobody]
    /\ call' = CallsWithout({d})
    /\ Silent
    /\ UNCHANGED <<messageVars, lastRead>>

-----------------------------------------------------------------------------
Posting(r) ==
    \/ Start(r) \/ \E u \in Parties : PostMessage(r, u)
    \/ UpsertConversation(r) \/ \E text \in Texts : CreateMessage(r, text)
    \/ NotifyOtherParty(r) \/ SendNotifications(r) \/ AnswerPost(r)

Editing(r) ==
    \/ \E m \in Sent : DeleteMessage(r, m) \/ EditMessage(r, m)
    \/ WriteDelete(r) \/ \E text \in Texts : WriteEdit(r, text)

Reading(r) == WriteRead(r) \/ \E u \in Parties : MarkRead(r, u)

Subscribing == \E d \in Devices : RemoveSubscription(d) \/ \E u \in Parties : SaveSubscription(d, u)

ConversationNext ==
    \/ \E r \in Calls : Posting(r) \/ Editing(r) \/ Reading(r) \/ CallFails(r)
    \/ Subscribing

ConversationSpec == ConversationInit /\ [][ConversationNext]_conversationVars

-----------------------------------------------------------------------------
(* Properties.                                                             *)

ConversationTypeOK ==
    /\ opened \in BOOLEAN
    /\ Len(author) <= MaxMessages /\ Len(body) = Len(author)
    /\ \A m \in Sent : author[m] \in Parties /\ body[m] \in {"plain", "masked"}
    /\ deleted \subseteq Sent
    /\ lastRead \in [Parties -> 0 .. Len(author)]
    /\ owner \in [Devices -> Parties \cup {Nobody}]
    /\ \A r \in Calls : call[r].at \in {"idle", "upsert", "create", "notify", "push", "answer",
                                        "edit", "delete", "markRead"}
    /\ out # Nothing => /\ out.way \in {"push", "post", "edit"} /\ out.message \in Sent
                        /\ out.content \in {"text", "null"}
                        /\ out.to \subseteq Parties \cup {Nobody}

Reveals(ways) ==
    out # Nothing /\ out.way \in ways /\ out.message \in deleted /\ out.content # "null" /\ out.to # {}

\* The text of a deleted message leaves the server only with the post that
\* created it, when the deletion came while that post was notifying: an edit
\* that crosses the deletion answers without the text.
DeletedLeavesWithItsPost == ~Reveals({"edit"})

\* The text a message had when it was deleted is kept for disputes, "jamais
\* écrasé", unless an edit was in flight when it was deleted.
DeletedTextKept ==
    [][\A m \in deleted : body'[m] # body[m] =>
          \E r \in Calls : /\ call[r].at = "edit" /\ call[r].message = m
                         /\ call[r].crossed]_conversationVars

\* A conversation a party has read comes back to its badge only by a message
\* of the other party, or by a POST .../read older than the one recorded,
\* landing after it.
BadgeOnlyByNewMessage ==
    [][\A u \in Parties : ~Unread(u) /\ Unread(u)' =>
          \/ Len(author') = Len(author) + 1 /\ author'[Len(author')] = Other(u)
          \/ \E r \in Calls : /\ call[r].at = "markRead" /\ call[r].user = u
                              /\ call[r].date < lastRead[u]]_conversationVars

\* The notification of a message never reaches its author, "jamais à l'auteur
\* du message", unless a device changed hands with the notification on its way.
AuthorNotNotified ==
    out # Nothing /\ out.way = "push" /\ ~out.crossed => author[out.message] \notin out.to

\* What the comment on toPublicMessage says of every entry point: no answer
\* carries the text of a message that was deleted before it.
DeletedNeverReturned == ~Reveals({"post", "edit"})

=============================================================================

---------------------------- MODULE PayablesProofs ----------------------------
(***************************************************************************)
(* Theorems about Payables: for any rows, accounts, webhooks and requests, *)
(* what is paid is what was paid for.                                      *)
(***************************************************************************)
EXTENDS Payables, SequenceTheorems, TLAPS

-----------------------------------------------------------------------------
(* A reference comes back as the row it was made for.                      *)

\* The words of each kind, and the order in which decodeRef tries them.
LEMMA Patterns ==
    /\ Words["order"] = <<"order">> /\ Words["booking"] = <<"booking">>
    /\ Words["shop_extra"] = <<"shop", "extra">> /\ Words["shop"] = <<"shop">>
BY DEF Words

LEMMA Tried ==
    /\ Alternatives[1] = "order" /\ Alternatives[2] = "booking"
    /\ Alternatives[3] = "shop_extra" /\ Alternatives[4] = "shop"
BY DEF Alternatives

\* Short sequences with the same elements are the same.
LEMMA SameElements ==
    ASSUME NEW S, NEW s \in Seq(S), NEW t \in Seq(S), Len(s) = Len(t),
           \/ Len(s) = 1 /\ s[1] = t[1]
           \/ Len(s) = 2 /\ s[1] = t[1] /\ s[2] = t[2]
           \/ Len(s) = 3 /\ s[1] = t[1] /\ s[2] = t[2] /\ s[3] = t[3]
    PROVE  s = t
<1>1. \A i \in 1 .. Len(s) : s[i] = t[i]
  OBVIOUS
<1> QED
  BY <1>1, SeqEqual

\* A reference is the words of its kind and an id; the id is its last element.
LEMMA AppendedToOne == ASSUME NEW a, NEW p PROVE Append(<<a>>, p) = <<a, p>>
<1> DEFINE S == {a, p}
           s == Append(<<a>>, p)
           t == <<a, p>>
<1>1. <<a>> \in Seq(S) /\ p \in S /\ t \in Seq(S) /\ Len(t) = 2 /\ t[1] = a /\ t[2] = p
  OBVIOUS
<1>2. s \in Seq(S) /\ Len(s) = 2 /\ s[1] = a /\ s[2] = p
  BY <1>1, AppendProperties
<1> HIDE DEF S, s, t
<1> QED
  BY <1>1, <1>2, SameElements DEF s, t

LEMMA AppendedToTwo == ASSUME NEW a, NEW b, NEW p PROVE Append(<<a, b>>, p) = <<a, b, p>>
<1> DEFINE S == {a, b, p}
           s == Append(<<a, b>>, p)
           t == <<a, b, p>>
<1>1. /\ <<a, b>> \in Seq(S) /\ p \in S
      /\ t \in Seq(S) /\ Len(t) = 3 /\ t[1] = a /\ t[2] = b /\ t[3] = p
  OBVIOUS
<1>2. s \in Seq(S) /\ Len(s) = 3 /\ s[1] = a /\ s[2] = b /\ s[3] = p
  BY <1>1, AppendProperties
<1> HIDE DEF S, s, t
<1> QED
  BY <1>1, <1>2, SameElements DEF s, t

LEMMA LastOf ==
    ASSUME NEW a, NEW b, NEW p
    PROVE  SubSeq(<<a, p>>, 2, 2) = <<p>> /\ SubSeq(<<a, b, p>>, 3, 3) = <<p>>
<1> DEFINE S == {a, b, p}
           s == SubSeq(<<a, p>>, 2, 2)
           t == SubSeq(<<a, b, p>>, 3, 3)
           u == <<p>>
<1>1. <<a, p>> \in Seq(S) /\ <<a, b, p>> \in Seq(S) /\ u \in Seq(S) /\ Len(u) = 1 /\ u[1] = p
  OBVIOUS
<1>2. s \in Seq(S) /\ Len(s) = 1 /\ s[1] = p
  BY <1>1, SubSeqProperties
<1>3. t \in Seq(S) /\ Len(t) = 1 /\ t[1] = p
  BY <1>1, SubSeqProperties
<1> HIDE DEF S, s, t, u
<1> QED
  BY <1>1, <1>2, <1>3, SameElements DEF s, t, u

\* A pattern that begins otherwise does not fit, nor one as long as the reference.
LEMMA NoFit ==
    ASSUME NEW a, NEW b, NEW c, NEW d, NEW p
    PROVE  /\ c # a => ~IsStrictPrefix(<<c>>, <<a, p>>) /\ ~IsStrictPrefix(<<c>>, <<a, b, p>>)
           /\ ~IsStrictPrefix(<<c, d>>, <<a, p>>)
<1>1. c # a => ~IsStrictPrefix(<<c>>, <<a, p>>)
  BY DEF IsStrictPrefix, IsPrefix
<1>2. c # a => ~IsStrictPrefix(<<c>>, <<a, b, p>>)
  BY DEF IsStrictPrefix, IsPrefix
<1>3. ASSUME IsStrictPrefix(<<c, d>>, <<a, p>>) PROVE FALSE
  <2>1. SubSeq(<<c, d>>, 1, 2) = SubSeq(<<a, p>>, 1, 2) /\ <<c, d>> # <<a, p>>
    BY <1>3 DEF IsStrictPrefix, IsPrefix
  <2>2. <<c, d>> \in Seq({a, c, d, p}) /\ <<a, p>> \in Seq({a, c, d, p})
    OBVIOUS
  <2> QED
    BY <2>1, <2>2, SubSeqFull
<1> QED
  BY <1>1, <1>2, <1>3

\* The words of its kind fit a reference.
LEMMA Fit ==
    ASSUME NEW a, NEW b, NEW p
    PROVE  IsStrictPrefix(<<a>>, <<a, p>>) /\ IsStrictPrefix(<<a, b>>, <<a, b, p>>)
<1>1. IsStrictPrefix(<<a>>, <<a, p>>)
  BY DEF IsStrictPrefix, IsPrefix
<1>2. IsStrictPrefix(<<a, b>>, <<a, b, p>>)
  BY DEF IsStrictPrefix, IsPrefix
<1> QED
  BY <1>1, <1>2

\* The alternative that fits while none before it does is the one taken.
LEMMA FirstFit ==
    ASSUME NEW ref, NEW i \in 1 .. 4, IsStrictPrefix(Words[Alternatives[i]], ref),
           \A j \in 1 .. i - 1 : ~IsStrictPrefix(Words[Alternatives[j]], ref)
    PROVE  DecodeRef(ref) = [kind |-> Alternatives[i],
                             id |-> SubSeq(ref, Len(Words[Alternatives[i]]) + 1, Len(ref))]
<1> DEFINE Fits(j) == IsStrictPrefix(Words[Alternatives[j]], ref)
           fits == {j \in 1 .. 4 : Fits(j)}
           first == CHOOSE j \in fits : \A k \in fits : j <= k
<1>1. Fits(i) /\ \A j \in 1 .. i - 1 : ~Fits(j)
  OBVIOUS
<1> HIDE DEF Fits
<1>2. i \in fits /\ \A j \in fits : i <= j
  BY <1>1
<1>3. fits \subseteq 1 .. 4
  OBVIOUS
<1> HIDE DEF fits
<1>4. first \in fits /\ \A k \in fits : first <= k
  BY <1>2
<1> HIDE DEF first
<1>5. first = i /\ fits # {}
  BY <1>2, <1>3, <1>4
<1> QED
  BY <1>5 DEF DecodeRef, first, fits, Fits

\* decodeRef gives back the kind and the id that the reference was made of.
LEMMA ReferenceComesBack ==
    ASSUME NEW p \in Payables
    PROVE  DecodeRef(EncodeRef(p)) = [kind |-> KindOf[p], id |-> <<p>>]
<1>1. CASE KindOf[p] = "booking"
  <2>1. EncodeRef(p) = <<"booking", p>>
    BY <1>1, Patterns, AppendedToOne DEF EncodeRef
  <2>2. ~IsStrictPrefix(<<"order">>, <<"booking", p>>)
    BY NoFit
  <2>3. IsStrictPrefix(<<"booking">>, <<"booking", p>>)
    BY Fit
  <2>4. /\ ~IsStrictPrefix(Words[Alternatives[1]], EncodeRef(p))
        /\ IsStrictPrefix(Words[Alternatives[2]], EncodeRef(p))
    BY <2>1, <2>2, <2>3, Patterns, Tried
  <2>5. /\ 2 \in 1 .. 4
        /\ \A j \in 1 .. 2 - 1 : ~IsStrictPrefix(Words[Alternatives[j]], EncodeRef(p))
    BY <2>4
  <2>6. DecodeRef(EncodeRef(p)) = [kind |-> Alternatives[2],
             id |-> SubSeq(EncodeRef(p), Len(Words[Alternatives[2]]) + 1, Len(EncodeRef(p)))]
    BY <2>4, <2>5, FirstFit, Zenon
  <2>7. DecodeRef(EncodeRef(p)) = [kind |-> "booking", id |-> SubSeq(<<"booking", p>>, 2, 2)]
    BY <2>1, <2>6, Tried, Patterns
  <2> QED
    BY <1>1, <2>7, LastOf
<1>2. CASE KindOf[p] = "shop_extra"
  <2>1. EncodeRef(p) = <<"shop", "extra", p>>
    BY <1>2, Patterns, AppendedToTwo DEF EncodeRef
  <2>2. /\ ~IsStrictPrefix(<<"order">>, <<"shop", "extra", p>>)
        /\ ~IsStrictPrefix(<<"booking">>, <<"shop", "extra", p>>)
    BY NoFit
  <2>3. IsStrictPrefix(<<"shop", "extra">>, <<"shop", "extra", p>>)
    BY Fit
  <2>4. /\ ~IsStrictPrefix(Words[Alternatives[1]], EncodeRef(p))
        /\ ~IsStrictPrefix(Words[Alternatives[2]], EncodeRef(p))
        /\ IsStrictPrefix(Words[Alternatives[3]], EncodeRef(p))
    BY <2>1, <2>2, <2>3, Patterns, Tried
  <2>5. /\ 3 \in 1 .. 4
        /\ \A j \in 1 .. 3 - 1 : ~IsStrictPrefix(Words[Alternatives[j]], EncodeRef(p))
    BY <2>4
  <2>6. DecodeRef(EncodeRef(p)) = [kind |-> Alternatives[3],
             id |-> SubSeq(EncodeRef(p), Len(Words[Alternatives[3]]) + 1, Len(EncodeRef(p)))]
    BY <2>4, <2>5, FirstFit, Zenon
  <2>7. DecodeRef(EncodeRef(p))
          = [kind |-> "shop_extra", id |-> SubSeq(<<"shop", "extra", p>>, 3, 3)]
    BY <2>1, <2>6, Tried, Patterns
  <2> QED
    BY <1>2, <2>7, LastOf
<1>3. CASE KindOf[p] = "shop"
  <2>1. EncodeRef(p) = <<"shop", p>>
    BY <1>3, Patterns, AppendedToOne DEF EncodeRef
  <2>2. /\ ~IsStrictPrefix(<<"order">>, <<"shop", p>>)
        /\ ~IsStrictPrefix(<<"booking">>, <<"shop", p>>)
        /\ ~IsStrictPrefix(<<"shop", "extra">>, <<"shop", p>>)
    BY NoFit
  <2>3. IsStrictPrefix(<<"shop">>, <<"shop", p>>)
    BY Fit
  <2>4. /\ ~IsStrictPrefix(Words[Alternatives[1]], EncodeRef(p))
        /\ ~IsStrictPrefix(Words[Alternatives[2]], EncodeRef(p))
        /\ ~IsStrictPrefix(Words[Alternatives[3]], EncodeRef(p))
        /\ IsStrictPrefix(Words[Alternatives[4]], EncodeRef(p))
    BY <2>1, <2>2, <2>3, Patterns, Tried
  <2>5. /\ 4 \in 1 .. 4
        /\ \A j \in 1 .. 4 - 1 : ~IsStrictPrefix(Words[Alternatives[j]], EncodeRef(p))
    BY <2>4
  <2>6. DecodeRef(EncodeRef(p)) = [kind |-> Alternatives[4],
             id |-> SubSeq(EncodeRef(p), Len(Words[Alternatives[4]]) + 1, Len(EncodeRef(p)))]
    BY <2>4, <2>5, FirstFit, Zenon
  <2>7. DecodeRef(EncodeRef(p)) = [kind |-> "shop", id |-> SubSeq(<<"shop", p>>, 2, 2)]
    BY <2>1, <2>6, Tried, Patterns
  <2> QED
    BY <1>3, <2>7, LastOf
<1> QED
  BY <1>1, <1>2, <1>3, PayableAssumption

\* The token of a checkout decodes to nothing, whatever row it is of.
LEMMA TokenDecodesToNothing ==
    ASSUME NEW p PROVE DecodeRef(TokenOf(p)) = NoRef
<1>1. /\ ~IsStrictPrefix(<<"order">>, <<"token", p>>)
      /\ ~IsStrictPrefix(<<"booking">>, <<"token", p>>)
      /\ ~IsStrictPrefix(<<"shop", "extra">>, <<"token", p>>)
      /\ ~IsStrictPrefix(<<"shop">>, <<"token", p>>)
  BY NoFit
<1>2. /\ ~IsStrictPrefix(Words[Alternatives[1]], TokenOf(p))
      /\ ~IsStrictPrefix(Words[Alternatives[2]], TokenOf(p))
      /\ ~IsStrictPrefix(Words[Alternatives[3]], TokenOf(p))
      /\ ~IsStrictPrefix(Words[Alternatives[4]], TokenOf(p))
  BY <1>1, Patterns, Tried DEF TokenOf
<1>3. {j \in 1 .. 4 : IsStrictPrefix(Words[Alternatives[j]], TokenOf(p))} = {}
  BY <1>2
<1> QED
  BY <1>3, Zenon DEF DecodeRef

\* A row is named by one reference alone, and by no token.
LEMMA OneReference ==
    ASSUME NEW p \in Payables
    PROVE  /\ DecodeRef(EncodeRef(p)) = OwnRef(p) /\ OwnRef(p) # NoRef
           /\ \A q \in Payables : OwnRef(q) = OwnRef(p) => q = p
           /\ \A q \in Payables : EncodeRef(q) = EncodeRef(p) => q = p
           /\ \A q \in Payables : TokenOf(q) # EncodeRef(p)
<1>1. \A q \in Payables : DecodeRef(EncodeRef(q)) = OwnRef(q)
  BY ReferenceComesBack DEF OwnRef
<1>2. OwnRef(p) # NoRef
  <2>1. KindOf[p] # "none"
    BY PayableAssumption
  <2> QED
    BY <2>1 DEF OwnRef, NoRef
<1>3. \A q \in Payables : OwnRef(q) = OwnRef(p) => q = p
  BY DEF OwnRef
<1>4. \A q \in Payables : EncodeRef(q) = EncodeRef(p) => q = p
  BY <1>1, <1>3
<1>5. \A q \in Payables : TokenOf(q) # EncodeRef(p)
  BY <1>1, <1>2, TokenDecodesToNothing
<1> QED
  BY <1>1, <1>2, <1>3, <1>4, <1>5

-----------------------------------------------------------------------------
(* The inductive invariant: what a request has still to do concerns rows   *)
(* that exist, and the row it is about to mark is paid for, simulated, or  *)
(* one that checkStatus called paid by mistake.                            *)

Awaits == {"idle", "createSlot", "initCheckout", "recordInitiated",
           "checkStatus", "recordAccepted", "recordRefused", "markPaid"}
Ordering == {"createSlot", "initCheckout"}
Verifying == {"checkStatus", "recordAccepted", "recordRefused"}

Refs == {NoRef} \cup {OwnRef(p) : p \in Payables}
Tokens == {TokenOf(p) : p \in Payables}
Strings == {<<>>} \cup {EncodeRef(p) : p \in Payables} \cup Tokens
JobRecord == [at : Awaits, row : Payables \cup {NoPayable}, via : Providers \cup {"none"},
              says : Strings, ref : Refs]
JobsTyped == job \in [Jobs -> JobRecord]

HasSubscription(s) == \E q \in Payables : KindOf[q] = "shop" /\ Payer[q] = s /\ payable[q] = "paid"

JobHasRow == \A r \in Jobs : job[r].at \notin {"idle", "createSlot"} => payable[job[r].row] # "absent"

\* What a webhook brings: the reference of a row, or a token.
Brought == {EncodeRef(q) : q \in {q \in Payables : payable[q] # "absent"}} \cup Tokens

BringsKnown == \A r \in Jobs : job[r].at \in Verifying => job[r].says \in Brought

KnownHasRow ==
    \A p \in Payables : checkout[p] # "none" \/ EncodeRef(p) \in accepted => payable[p] # "absent"

SlotAwaited ==
    \A r \in Jobs : job[r].at = "createSlot" =>
       payable[job[r].row] = "absent" /\ HasSubscription(Payer[job[r].row])

OrderAlone ==
    \A r \in Jobs : job[r].at \in Ordering =>
       /\ checkout[job[r].row] = "none"
       /\ \A s \in Jobs : job[s].at \in Ordering /\ job[s].row = job[r].row => s = r

Excused(p) == p \in Simulated \/ p \in misled

AcceptsWhatWasPaid ==
    \A r \in Jobs : \A q \in Payables :
       job[r].at = "recordAccepted" /\ job[r].says = EncodeRef(q) =>
          checkout[q] = "paid" \/ Excused(q)

MarksWhatWasPaid ==
    \A r \in Jobs : \A q \in Payables :
       job[r].at = "markPaid" /\ job[r].ref = OwnRef(q) =>
          payable[q] # "absent" /\ (checkout[q] = "paid" \/ Excused(q))

PayableInv ==
    /\ PayableTypeOK /\ JobsTyped
    /\ JobHasRow /\ BringsKnown /\ KnownHasRow /\ SlotAwaited /\ OrderAlone
    /\ AcceptsWhatWasPaid /\ MarksWhatWasPaid
    /\ PaidWasPaid /\ AcceptedIsMarked /\ SlotRestsOnSubscription

-----------------------------------------------------------------------------
(* What becomes of the requests.                                           *)

\* A request at rest is a request.
LEMMA NoJobTyped == NoJob \in JobRecord /\ NoJob.at = "idle" /\ NoJob.row = NoPayable
BY DEF NoJob, JobRecord, Awaits, Refs, Strings

\* A request that begins works on its row alone.
LEMMA Taken ==
    ASSUME JobsTyped, NEW r \in Jobs, NEW p \in Payables, NEW s \in Awaits, Take(r, p, s)
    PROVE  /\ JobsTyped' /\ job[r].at = "idle"
           /\ job'[r].at = s /\ job'[r].row = p
           /\ \A q \in Jobs : q # r => job'[q] = job[q]
<1> DEFINE next == [NoJob EXCEPT !.at = s, !.row = p]
<1>1. NoJob \in JobRecord /\ NoJob.at = "idle"
  BY NoJobTyped
<1>2. next \in JobRecord /\ next.at = s /\ next.row = p
  <2>1. [NoJob EXCEPT !.at = s] \in JobRecord /\ [NoJob EXCEPT !.at = s].at = s
    BY <1>1 DEF JobRecord
  <2> QED
    BY <2>1 DEF JobRecord
<1>3. job[r].at = "idle" /\ job' = [job EXCEPT ![r] = next]
  BY <1>1 DEF Take
<1> HIDE DEF next
<1> QED
  BY <1>2, <1>3 DEF JobsTyped

\* A webhook that begins keeps the checkout it is about and the reference.
LEMMA WebhookTaken ==
    ASSUME JobsTyped, NEW r \in Jobs, NEW p \in Payables, NEW via \in Providers,
           NEW ref \in Strings, job[r] = NoJob,
           job' = [job EXCEPT ![r] = [NoJob EXCEPT !.at = "checkStatus", !.row = p,
                                                   !.via = via, !.says = ref]]
    PROVE  /\ JobsTyped' /\ job[r].at = "idle"
           /\ job'[r].at = "checkStatus" /\ job'[r].row = p
           /\ job'[r].via = via /\ job'[r].says = ref
           /\ \A q \in Jobs : q # r => job'[q] = job[q]
<1> DEFINE next == [NoJob EXCEPT !.at = "checkStatus", !.row = p, !.via = via, !.says = ref]
<1>1. NoJob \in JobRecord /\ NoJob.at = "idle"
  BY NoJobTyped
<1>2. /\ next \in JobRecord /\ next.at = "checkStatus" /\ next.row = p
      /\ next.via = via /\ next.says = ref
  <2> DEFINE a == [NoJob EXCEPT !.at = "checkStatus"]
             b == [a EXCEPT !.row = p]
             c == [b EXCEPT !.via = via]
             d == [c EXCEPT !.says = ref]
  <2>1. a \in JobRecord /\ a.at = "checkStatus"
    BY <1>1 DEF JobRecord, Awaits
  <2>2. next = d
    OBVIOUS
  <2> HIDE DEF a
  <2>3. b \in JobRecord /\ b.at = "checkStatus" /\ b.row = p
    BY <2>1 DEF JobRecord
  <2> HIDE DEF b
  <2>4. c \in JobRecord /\ c.at = "checkStatus" /\ c.row = p /\ c.via = via
    BY <2>3 DEF JobRecord
  <2> HIDE DEF c
  <2>5. d \in JobRecord /\ d.at = "checkStatus" /\ d.row = p /\ d.via = via /\ d.says = ref
    BY <2>4 DEF JobRecord, Strings
  <2> HIDE DEF d, next
  <2> QED
    BY <2>2, <2>5
<1>3. job[r].at = "idle" /\ job' = [job EXCEPT ![r] = next]
  BY <1>1
<1> HIDE DEF next
<1> QED
  BY <1>2, <1>3 DEF JobsTyped

\* A request that goes on keeps its row and its references.
LEMMA Stepped ==
    ASSUME JobsTyped, NEW r \in Jobs, NEW s, NEW t \in Awaits, Step(r, s, t)
    PROVE  /\ JobsTyped' /\ job[r].at = s
           /\ job'[r].at = t /\ job'[r].row = job[r].row
           /\ job'[r].says = job[r].says /\ job'[r].ref = job[r].ref
           /\ \A q \in Jobs : q # r => job'[q] = job[q]
<1> DEFINE u == job[r]
           next == [u EXCEPT !.at = t]
<1>1. u \in JobRecord
  BY DEF JobsTyped
<1>2. job[r].at = s /\ job' = [job EXCEPT ![r] = next]
  BY DEF Step
<1> HIDE DEF u
<1>3. /\ next \in JobRecord /\ next.at = t /\ next.row = u.row
      /\ next.says = u.says /\ next.ref = u.ref
  BY <1>1 DEF JobRecord
<1> HIDE DEF next
<1> QED
  BY <1>2, <1>3 DEF JobsTyped, u

\* A request that ends works on no row.
LEMMA Finished ==
    ASSUME JobsTyped, NEW r \in Jobs, job' = [job EXCEPT ![r] = NoJob]
    PROVE  /\ JobsTyped'
           /\ job'[r].at = "idle" /\ job'[r].row = NoPayable
           /\ \A q \in Jobs : q # r => job'[q] = job[q]
BY NoJobTyped DEF JobsTyped

\* A request about to mark a row acts on a reference.
LEMMA Marked ==
    ASSUME JobsTyped, NEW r \in Jobs, NEW ref \in Refs,
           job' = [job EXCEPT ![r].at = "markPaid", ![r].ref = ref]
    PROVE  /\ JobsTyped'
           /\ job'[r].at = "markPaid" /\ job'[r].row = job[r].row /\ job'[r].ref = ref
           /\ \A q \in Jobs : q # r => job'[q] = job[q]
<1> DEFINE u == job[r]
           next == [u EXCEPT !.at = "markPaid", !.ref = ref]
<1>1. u \in JobRecord
  BY DEF JobsTyped
<1>2. job' = [job EXCEPT ![r] = next]
  BY DEF JobsTyped
<1> HIDE DEF u
<1>3. next \in JobRecord /\ next.at = "markPaid" /\ next.row = u.row /\ next.ref = ref
  <2> DEFINE a == [u EXCEPT !.at = "markPaid"]
             b == [a EXCEPT !.ref = ref]
  <2>1. a \in JobRecord /\ a.at = "markPaid" /\ a.row = u.row
    BY <1>1 DEF JobRecord, Awaits
  <2>2. next = b
    OBVIOUS
  <2> HIDE DEF a
  <2>3. b \in JobRecord /\ b.at = "markPaid" /\ b.row = a.row /\ b.ref = ref
    BY <2>1 DEF JobRecord
  <2> HIDE DEF b, next
  <2> QED
    BY <2>1, <2>2, <2>3
<1> HIDE DEF next
<1> QED
  BY <1>2, <1>3 DEF JobsTyped, u

-----------------------------------------------------------------------------
(* Each action keeps the invariant.                                        *)

\* A row created where there was none takes nothing from a paid one.
LEMMA RowCreated ==
    ASSUME PayableTypeOK, NEW p \in Payables, CreateRow(p), payable[p] = "absent"
    PROVE  /\ payable' \in [Payables -> {"absent", "unpaid", "paid"}]
           /\ payable'[p] = "unpaid"
           /\ \A q \in Payables : q # p => payable'[q] = payable[q]
           /\ \A q \in Payables : payable[q] = "paid" => payable'[q] = "paid"
BY DEF PayableTypeOK, CreateRow

\* Rows stay, so what a webhook brought is known for good.
LEMMA BroughtStays ==
    ASSUME \A q \in Payables : payable[q] # "absent" => payable'[q] # "absent"
    PROVE  Brought \subseteq Brought'
BY DEF Brought

\* No row, no request.
LEMMA InvInitially == PayableInit => PayableInv
<1> SUFFICES ASSUME PayableInit PROVE PayableInv
  OBVIOUS
<1>1. \A r \in Jobs : job[r] = NoJob
  BY DEF PayableInit
<1>2. PayableTypeOK /\ JobsTyped
  BY <1>1, NoJobTyped, PayableAssumption DEF PayableInit, PayableTypeOK, JobsTyped
<1>3. JobHasRow /\ BringsKnown /\ KnownHasRow /\ SlotAwaited /\ OrderAlone
  BY <1>1, NoJobTyped DEF PayableInit, JobHasRow, BringsKnown, Verifying, KnownHasRow,
                          SlotAwaited, OrderAlone, Ordering
<1>4. AcceptsWhatWasPaid /\ MarksWhatWasPaid
  BY <1>1, NoJobTyped DEF AcceptsWhatWasPaid, MarksWhatWasPaid
<1>5. PaidWasPaid /\ AcceptedIsMarked /\ SlotRestsOnSubscription
  BY DEF PayableInit, PaidWasPaid, AcceptedIsMarked, SlotRestsOnSubscription
<1> QED
  BY <1>2, <1>3, <1>4, <1>5 DEF PayableInv

\* A row that is created: its request goes on, or begins, at its checkout.
LEMMA NewRowStep ==
    ASSUME PayableInv, NEW r \in Jobs, NEW p \in Payables,
           CreateRow(p), payable[p] = "absent",
           \A s \in Jobs \ {r} : job[s].at \in Ordering => job[s].row # p,
           JobsTyped', job[r].at \in {"idle", "createSlot"},
           job'[r].at = "initCheckout", job'[r].row = p,
           \A s \in Jobs : s # r => job'[s] = job[s],
           KindOf[p] = "shop_extra" => HasSubscription(Payer[p]),
           UNCHANGED <<ended, checkout, accepted, hooksSent, unmarked, misled>>
    PROVE  PayableInv'
<1> USE DEF PayableInv
<1>1. /\ payable' \in [Payables -> {"absent", "unpaid", "paid"}]
      /\ payable'[p] = "unpaid"
      /\ \A q \in Payables : q # p => payable'[q] = payable[q]
      /\ \A q \in Payables : payable[q] = "paid" => payable'[q] = "paid"
      /\ \A q \in Payables : payable[q] # "absent" => payable'[q] # "absent"
  BY RowCreated
<1>2. PayableTypeOK'
  BY <1>1 DEF PayableTypeOK
<1>3. JobHasRow' /\ KnownHasRow'
  BY <1>1 DEF JobHasRow, KnownHasRow, PayableTypeOK
<1>4. BringsKnown'
  <2>1. Brought \subseteq Brought'
    BY <1>1, BroughtStays
  <2> QED
    BY <2>1 DEF BringsKnown, Verifying
<1>5. \A s : HasSubscription(s) => HasSubscription(s)'
  BY <1>1 DEF HasSubscription
<1>6. SlotAwaited'
  <2>1. \A s \in Jobs : job'[s].at = "createSlot" => s # r /\ job[s].row # p
    BY DEF Ordering
  <2> QED
    BY <1>1, <1>5, <2>1 DEF SlotAwaited, PayableTypeOK
<1>7. OrderAlone'
  <2>1. checkout[p] = "none"
    BY DEF KnownHasRow, PayableTypeOK
  <2> QED
    BY <2>1 DEF OrderAlone, Ordering
<1>8. AcceptsWhatWasPaid' /\ MarksWhatWasPaid'
  BY <1>1 DEF AcceptsWhatWasPaid, MarksWhatWasPaid, Excused
<1>9. PaidWasPaid' /\ AcceptedIsMarked'
  <2>1. \A q \in Payables : payable'[q] = "paid" => payable[q] = "paid"
    BY <1>1
  <2>2. PaidWasPaid'
    BY <2>1 DEF PaidWasPaid
  <2>3. AcceptedIsMarked'
    BY <1>1 DEF AcceptedIsMarked, PayableTypeOK
  <2> QED
    BY <2>2, <2>3
<1>10. SlotRestsOnSubscription'
  <2>1. ASSUME NEW q \in Payables, KindOf[q] = "shop_extra", payable'[q] # "absent"
        PROVE  HasSubscription(Payer[q])
    BY <1>1, <2>1 DEF SlotRestsOnSubscription, HasSubscription
  <2> QED
    BY <1>5, <2>1 DEF SlotRestsOnSubscription, HasSubscription
<1> QED
  BY <1>2, <1>3, <1>4, <1>6, <1>7, <1>8, <1>9, <1>10

\* A booking or a subscription: the row is created by the request that begins.
LEMMA OrderStep ==
    ASSUME PayableInv, NEW r \in Jobs, NEW p \in Payables, Book(r, p) \/ Subscribe(r, p)
    PROVE  PayableInv'
<1>1. /\ NewRow(p) /\ CreateRow(p) /\ KindOf[p] # "shop_extra" /\ Take(r, p, "initCheckout")
      /\ UNCHANGED <<ended, checkout, accepted, hooksSent, unmarked, misled>>
  BY DEF Book, Subscribe
<1>2. /\ JobsTyped' /\ job[r].at = "idle"
      /\ job'[r].at = "initCheckout" /\ job'[r].row = p
      /\ \A q \in Jobs : q # r => job'[q] = job[q]
  BY <1>1, Taken DEF Awaits, PayableInv
<1> QED
  BY <1>1, <1>2, NewRowStep DEF NewRow

\* An extra slot is asked for by a seller whose subscription runs.
LEMMA SubscribeExtraStep ==
    ASSUME PayableInv, NEW r \in Jobs, NEW p \in Payables, SubscribeExtra(r, p)
    PROVE  PayableInv'
<1> USE DEF PayableInv
<1>1. /\ JobsTyped' /\ job[r].at = "idle"
      /\ job'[r].at = "createSlot" /\ job'[r].row = p
      /\ \A q \in Jobs : q # r => job'[q] = job[q]
  BY Taken DEF SubscribeExtra, Awaits
<1>2. payable[p] = "absent" /\ \A q \in Jobs : job[q].row # p
  BY DEF SubscribeExtra, NewRow
<1>3. UNCHANGED <<payable, ended, checkout, accepted, hooksSent, unmarked, misled>>
  BY DEF SubscribeExtra
<1>4. HasSubscription(Payer[p])
  BY DEF SubscribeExtra, Running, HasSubscription
<1>5. PayableTypeOK'
  BY <1>1, <1>3 DEF PayableTypeOK
<1>6. JobHasRow' /\ KnownHasRow'
  BY <1>1, <1>3 DEF JobHasRow, KnownHasRow
<1>7. BringsKnown'
  BY <1>1, <1>3 DEF BringsKnown, Verifying, Brought
<1>8. SlotAwaited' /\ OrderAlone'
  <2>1. SlotAwaited'
    BY <1>1, <1>2, <1>3, <1>4 DEF SlotAwaited, HasSubscription
  <2>2. checkout[p] = "none"
    BY <1>2 DEF KnownHasRow, PayableTypeOK
  <2>3. OrderAlone'
    BY <1>1, <1>2, <1>3, <2>2 DEF OrderAlone, Ordering
  <2> QED
    BY <2>1, <2>3
<1>9. AcceptsWhatWasPaid' /\ MarksWhatWasPaid'
  BY <1>1, <1>3 DEF AcceptsWhatWasPaid, MarksWhatWasPaid, Excused
<1>10. PaidWasPaid' /\ AcceptedIsMarked' /\ SlotRestsOnSubscription'
  BY <1>1, <1>3 DEF PaidWasPaid, AcceptedIsMarked, SlotRestsOnSubscription
<1> QED
  BY <1>1, <1>5, <1>6, <1>7, <1>8, <1>9, <1>10

\* The slot is created; the subscription it rests on was paid.
LEMMA CreateSlotStep ==
    ASSUME PayableInv, NEW r \in Jobs, CreateSlot(r)
    PROVE  PayableInv'
<1>1. /\ JobsTyped' /\ job[r].at = "createSlot"
      /\ job'[r].at = "initCheckout" /\ job'[r].row = job[r].row
      /\ \A q \in Jobs : q # r => job'[q] = job[q]
  BY Stepped DEF CreateSlot, Awaits, PayableInv
<1>2. /\ job[r].row \in Payables /\ payable[job[r].row] = "absent"
      /\ HasSubscription(Payer[job[r].row])
      /\ \A q \in Jobs \ {r} : job[q].at \in Ordering => job[q].row # job[r].row
  BY <1>1 DEF PayableInv, PayableTypeOK, SlotAwaited, OrderAlone, Ordering
<1>3. /\ CreateRow(job[r].row)
      /\ UNCHANGED <<ended, checkout, accepted, hooksSent, unmarked, misled>>
  BY DEF CreateSlot
<1> QED
  BY <1>1, <1>2, <1>3, NewRowStep

\* A step that writes no row and no record leaves the invariant to the request
\* that moves, to the checkouts, which are only ever opened or paid, and to the
\* answers of checkStatus.
LEMMA RequestStep ==
    ASSUME PayableInv, NEW r \in Jobs, NEW p \in Payables,
           JobsTyped', job'[r].row = p, payable[p] # "absent",
           job[r].at \notin {"createSlot", "markPaid"},
           job'[r].at \notin {"createSlot", "initCheckout", "markPaid"},
           job'[r].at \in Verifying => job'[r].says \in Brought,
           \A q \in Payables : job'[r].at = "recordAccepted" /\ job'[r].says = EncodeRef(q) =>
              checkout'[q] = "paid" \/ Excused(q)',
           \A s \in Jobs : s # r => job'[s] = job[s],
           UNCHANGED <<payable, ended, accepted, unmarked>>,
           hooksSent' \in 0 .. MaxHooks,
           misled \subseteq misled', misled' \subseteq Payables,
           checkout' \in [Payables -> {"none", "open", "paid"}],
           \A q \in Payables : checkout[q] = "paid" => checkout'[q] = "paid",
           \A q \in Payables : checkout'[q] # checkout[q] =>
              q = p /\ \A s \in Jobs \ {r} : job[s].at \in Ordering => job[s].row # p
    PROVE  PayableInv'
<1> USE DEF PayableInv
<1>1. PayableTypeOK'
  BY DEF PayableTypeOK, JobsTyped, JobRecord, Awaits
<1>2. JobHasRow' /\ KnownHasRow'
  BY DEF JobHasRow, KnownHasRow
<1>3. BringsKnown'
  BY DEF BringsKnown, Brought
<1>4. SlotAwaited'
  BY DEF SlotAwaited, HasSubscription
<1>5. OrderAlone'
  BY DEF OrderAlone, PayableTypeOK, Ordering
<1>6. \A q \in Payables : checkout[q] = "paid" \/ Excused(q) => checkout'[q] = "paid" \/ Excused(q)'
  BY DEF Excused
<1>7. AcceptsWhatWasPaid'
  BY <1>6 DEF AcceptsWhatWasPaid
<1>8. MarksWhatWasPaid'
  BY <1>6 DEF MarksWhatWasPaid
<1>9. PaidWasPaid' /\ AcceptedIsMarked' /\ SlotRestsOnSubscription'
  BY DEF PaidWasPaid, AcceptedIsMarked, SlotRestsOnSubscription
<1> QED
  BY <1>1, <1>2, <1>3, <1>4, <1>5, <1>7, <1>8, <1>9

\* The checkout of a row is opened once: its request is the only one that orders it.
LEMMA InitCheckoutStep ==
    ASSUME PayableInv, NEW r \in Jobs, InitCheckout(r)
    PROVE  PayableInv'
<1> DEFINE p == job[r].row
<1>1. /\ JobsTyped' /\ job[r].at = "initCheckout"
      /\ job'[r].at = "recordInitiated" /\ job'[r].row = p
      /\ \A q \in Jobs : q # r => job'[q] = job[q]
  BY Stepped DEF InitCheckout, Awaits, PayableInv
<1>2. p \in Payables /\ payable[p] # "absent"
  BY <1>1 DEF PayableInv, PayableTypeOK, JobHasRow
<1>3. /\ UNCHANGED <<payable, ended, accepted, hooksSent, unmarked, misled>>
      /\ checkout' = IF p \in Simulated THEN checkout ELSE [checkout EXCEPT ![p] = "open"]
  BY DEF InitCheckout
<1>4. /\ checkout' \in [Payables -> {"none", "open", "paid"}]
      /\ \A q \in Payables : q # p => checkout'[q] = checkout[q]
  BY <1>3 DEF PayableInv, PayableTypeOK
<1>5. checkout[p] = "none" /\ \A s \in Jobs \ {r} : job[s].at \in Ordering => job[s].row # p
  BY <1>1 DEF PayableInv, OrderAlone, Ordering
<1> HIDE DEF p
<1>6. \A q \in Payables : checkout[q] = "paid" => checkout'[q] = "paid"
  BY <1>4, <1>5
<1>7. hooksSent' \in 0 .. MaxHooks /\ misled \subseteq misled' /\ misled' \subseteq Payables
  BY <1>3 DEF PayableInv, PayableTypeOK
<1> QED
  BY <1>1, <1>2, <1>3, <1>4, <1>5, <1>6, <1>7, RequestStep DEF Verifying

\* A webhook comes for a row that exists.
LEMMA ReceiveWebhookStep ==
    ASSUME PayableInv, NEW r \in Jobs, NEW p \in Payables, NEW via \in Providers,
           ReceiveWebhook(r, p, via)
    PROVE  PayableInv'
<1>1. PICK ref \in References(via, p) :
         job' = [job EXCEPT ![r] = [NoJob EXCEPT !.at = "checkStatus", !.row = p,
                                                 !.via = via, !.says = ref]]
  BY DEF ReceiveWebhook
<1>2. payable[p] # "absent" /\ job[r] = NoJob
  BY DEF ReceiveWebhook
<1>3. ref \in Brought
  BY <1>2 DEF References, Brought, Tokens
<1>4. ref \in Strings
  BY <1>3 DEF Brought, Strings
<1>5. /\ JobsTyped' /\ job[r].at = "idle"
      /\ job'[r].at = "checkStatus" /\ job'[r].row = p /\ job'[r].says = ref
      /\ \A q \in Jobs : q # r => job'[q] = job[q]
  BY <1>1, <1>2, <1>4, WebhookTaken DEF PayableInv
<1>6. /\ UNCHANGED <<payable, ended, checkout, accepted, unmarked, misled>>
      /\ hooksSent < MaxHooks /\ hooksSent' = hooksSent + 1
  BY DEF ReceiveWebhook
<1>7. hooksSent' \in 0 .. MaxHooks /\ misled \subseteq misled' /\ misled' \subseteq Payables
  BY <1>6, PayableAssumption DEF PayableInv, PayableTypeOK
<1>8. checkout' \in [Payables -> {"none", "open", "paid"}]
  BY <1>6 DEF PayableInv, PayableTypeOK
<1> QED
  BY <1>2, <1>3, <1>5, <1>6, <1>7, <1>8, RequestStep

\* Only an answer "paid" leads to a record of payment: the reference is that of
\* a row that was paid, a token, or that of a row which is misled from here on.
LEMMA CheckStatusStep ==
    ASSUME PayableInv, NEW r \in Jobs, CheckStatus(r)
    PROVE  PayableInv'
<1> DEFINE paid == SaysPaid(job[r].via, job[r].row)
           t == IF paid THEN "recordAccepted" ELSE "recordRefused"
           p == job[r].row
<1>1. /\ Step(r, "checkStatus", t)
      /\ misled' = misled \cup {q \in Payables : /\ paid /\ ~AsksAbout(r, q) /\ checkout[q] # "paid"
                                                 /\ job[r].says = EncodeRef(q)}
      /\ UNCHANGED <<payable, ended, checkout, accepted, hooksSent, unmarked>>
  BY DEF CheckStatus
<1>0. \A q \in Payables : paid /\ AsksAbout(r, q) => checkout[q] = "paid"
  BY DEF SaysPaid, AsksAbout
<1> HIDE DEF paid
<1>2. /\ JobsTyped' /\ job[r].at = "checkStatus"
      /\ job'[r].at = t /\ job'[r].row = p /\ job'[r].says = job[r].says
      /\ \A q \in Jobs : q # r => job'[q] = job[q]
  BY <1>1, Stepped DEF Awaits, PayableInv
<1>3. /\ p \in Payables /\ payable[p] # "absent"
      /\ job[r].says \in Brought
  BY <1>2 DEF PayableInv, PayableTypeOK, JobHasRow, BringsKnown, Verifying
<1>4. \A q \in Payables : job'[r].at = "recordAccepted" /\ job'[r].says = EncodeRef(q) =>
         checkout'[q] = "paid" \/ Excused(q)'
  BY <1>0, <1>1, <1>2 DEF Excused
<1>5. /\ hooksSent' \in 0 .. MaxHooks
      /\ misled \subseteq misled' /\ misled' \subseteq Payables
      /\ checkout' \in [Payables -> {"none", "open", "paid"}]
      /\ UNCHANGED <<payable, ended, checkout, accepted, hooksSent, unmarked>>
  BY <1>1 DEF PayableInv, PayableTypeOK
<1> HIDE DEF p
<1> QED
  BY <1>2, <1>3, <1>4, <1>5, RequestStep

\* A request that ends without a write, or fails; or it leaves a record under a
\* token, which is no row's.
LEMMA JobEndStep ==
    ASSUME PayableInv, NEW r \in Jobs, job' = [job EXCEPT ![r] = NoJob],
           UNCHANGED <<payable, ended, checkout, hooksSent, misled>>,
           accepted \subseteq accepted', accepted' \subseteq accepted \cup Tokens,
           unmarked' = unmarked \cup {p \in Payables : job[r].at = "markPaid" /\ job[r].ref = OwnRef(p)}
    PROVE  PayableInv'
<1> USE DEF PayableInv
<1>1. /\ JobsTyped' /\ job'[r].at = "idle" /\ job'[r].row = NoPayable
      /\ \A q \in Jobs : q # r => job'[q] = job[q]
  BY Finished
<1>2. \A q \in Payables : EncodeRef(q) \in accepted' <=> EncodeRef(q) \in accepted
  BY OneReference DEF Tokens
<1>3. PayableTypeOK'
  BY <1>1 DEF PayableTypeOK, Tokens
<1>4. JobHasRow' /\ KnownHasRow'
  BY <1>1, <1>2 DEF JobHasRow, KnownHasRow
<1>5. BringsKnown'
  BY <1>1 DEF BringsKnown, Verifying, Brought
<1>6. SlotAwaited' /\ OrderAlone'
  BY <1>1 DEF SlotAwaited, HasSubscription, OrderAlone, Ordering
<1>7. AcceptsWhatWasPaid' /\ MarksWhatWasPaid'
  BY <1>1 DEF AcceptsWhatWasPaid, MarksWhatWasPaid, Excused
<1>8. PaidWasPaid' /\ SlotRestsOnSubscription'
  BY DEF PaidWasPaid, SlotRestsOnSubscription
<1>9. AcceptedIsMarked'
  BY <1>1, <1>2 DEF AcceptedIsMarked
<1> QED
  BY <1>1, <1>3, <1>4, <1>5, <1>6, <1>7, <1>8, <1>9

\* The record of a payment under a reference is followed by the update of its row.
LEMMA AcceptStep ==
    ASSUME PayableInv, NEW r \in Jobs, NEW q \in Payables,
           job[r].at \in {"recordInitiated", "recordAccepted"},
           payable[q] # "absent", checkout[q] = "paid" \/ Excused(q),
           job' = [job EXCEPT ![r].at = "markPaid", ![r].ref = OwnRef(q)],
           accepted' = accepted \cup {EncodeRef(q)},
           UNCHANGED <<payable, ended, checkout, hooksSent, unmarked, misled>>
    PROVE  PayableInv'
<1> USE DEF PayableInv
<1>1. /\ JobsTyped'
      /\ job'[r].at = "markPaid" /\ job'[r].row = job[r].row /\ job'[r].ref = OwnRef(q)
      /\ \A s \in Jobs : s # r => job'[s] = job[s]
  <2>1. OwnRef(q) \in Refs
    BY DEF Refs
  <2> QED
    BY <2>1, Marked
<1>2. \A p \in Payables : /\ EncodeRef(p) \in accepted' <=> EncodeRef(p) \in accepted \/ p = q
                          /\ OwnRef(p) = OwnRef(q) => p = q
  BY OneReference
<1>3. PayableTypeOK'
  BY <1>1 DEF PayableTypeOK
<1>4. JobHasRow' /\ KnownHasRow'
  BY <1>1, <1>2 DEF JobHasRow, KnownHasRow
<1>5. BringsKnown'
  BY <1>1 DEF BringsKnown, Verifying, Brought
<1>6. SlotAwaited' /\ OrderAlone'
  <2>1. \A s \in Jobs : job'[s].row = job[s].row /\ (job'[s].at \in Ordering => job'[s] = job[s])
    BY <1>1 DEF Ordering
  <2>2. \A s : HasSubscription(s)' <=> HasSubscription(s)
    BY DEF HasSubscription
  <2>3. SlotAwaited'
    BY <2>1, <2>2 DEF SlotAwaited, Ordering
  <2>4. OrderAlone'
    BY <2>1 DEF OrderAlone
  <2> QED
    BY <2>3, <2>4
<1>7. AcceptsWhatWasPaid' /\ MarksWhatWasPaid'
  BY <1>1, <1>2 DEF AcceptsWhatWasPaid, MarksWhatWasPaid, Excused
<1>8. PaidWasPaid' /\ SlotRestsOnSubscription'
  BY DEF PaidWasPaid, SlotRestsOnSubscription
<1>9. AcceptedIsMarked'
  <2>1. \A s \in Jobs : job[s].at = "markPaid" => job'[s] = job[s]
    BY <1>1
  <2> QED
    BY <1>1, <1>2, <2>1 DEF AcceptedIsMarked
<1> QED
  BY <1>1, <1>3, <1>4, <1>5, <1>6, <1>7, <1>8, <1>9

\* Without provider keys the request goes on to the update.
LEMMA RecordInitiatedStep ==
    ASSUME PayableInv, NEW r \in Jobs, RecordInitiated(r)
    PROVE  PayableInv'
<1>1. job[r].at = "recordInitiated"
  BY DEF RecordInitiated, Finish
<1>2. job[r].row \in Payables /\ payable[job[r].row] # "absent"
  BY <1>1 DEF PayableInv, PayableTypeOK, JobHasRow
<1>3. CASE job[r].row \in Simulated
  BY <1>1, <1>2, <1>3, AcceptStep DEF RecordInitiated, Excused
<1>4. CASE job[r].row \notin Simulated
  <2>1. /\ job' = [job EXCEPT ![r] = NoJob]
        /\ UNCHANGED <<payable, ended, checkout, accepted, hooksSent, unmarked, misled>>
    BY <1>4 DEF RecordInitiated, Finish
  <2> QED
    BY <1>1, <2>1, JobEndStep
<1> QED
  BY <1>3, <1>4

\* A reference comes back to its own row; a token decodes to nothing.
LEMMA RecordVerifiedStep ==
    ASSUME PayableInv, NEW r \in Jobs, RecordVerified(r)
    PROVE  PayableInv'
<1>1. UNCHANGED <<payable, ended, checkout, hooksSent, unmarked, misled>>
  BY DEF RecordVerified
<1>2. CASE job[r].at = "recordAccepted"
  <2>1. /\ accepted' = accepted \cup {job[r].says}
        /\ job' = IF DecodeRef(job[r].says) = NoRef THEN [job EXCEPT ![r] = NoJob]
                  ELSE [job EXCEPT ![r].at = "markPaid", ![r].ref = DecodeRef(job[r].says)]
    BY <1>2 DEF RecordVerified, Finish
  <2>2. job[r].says \in Brought
    BY <1>2 DEF PayableInv, BringsKnown, Verifying
  <2>3. ASSUME job[r].says \in Tokens PROVE PayableInv'
    <3>1. job' = [job EXCEPT ![r] = NoJob] /\ accepted' \subseteq accepted \cup Tokens
      BY <2>1, <2>3, TokenDecodesToNothing DEF Tokens
    <3> QED
      BY <1>1, <1>2, <2>1, <3>1, JobEndStep
  <2>4. ASSUME NEW q \in Payables, payable[q] # "absent", job[r].says = EncodeRef(q)
        PROVE  PayableInv'
    <3>1. checkout[q] = "paid" \/ Excused(q)
      BY <1>2, <2>4 DEF PayableInv, AcceptsWhatWasPaid
    <3>2. DecodeRef(job[r].says) = OwnRef(q) /\ OwnRef(q) # NoRef
      BY <2>4, OneReference
    <3>3. /\ job' = [job EXCEPT ![r].at = "markPaid", ![r].ref = OwnRef(q)]
          /\ accepted' = accepted \cup {EncodeRef(q)}
      BY <2>1, <2>4, <3>2
    <3> QED
      BY <1>1, <1>2, <2>4, <3>1, <3>3, AcceptStep
  <2> QED
    BY <2>2, <2>3, <2>4 DEF Brought
<1>3. CASE job[r].at = "recordRefused"
  <2>1. job' = [job EXCEPT ![r] = NoJob] /\ UNCHANGED accepted
    BY <1>3 DEF RecordVerified, Finish
  <2> QED
    BY <1>1, <1>3, <2>1, JobEndStep
<1> QED
  BY <1>2, <1>3 DEF RecordVerified, Finish

\* One row is marked, that of the reference.
LEMMA MarkPaidStep ==
    ASSUME PayableInv, NEW r \in Jobs, MarkPaid(r)
    PROVE  PayableInv'
<1> USE DEF PayableInv
<1>1. /\ JobsTyped' /\ job'[r].at = "idle" /\ job'[r].row = NoPayable
      /\ \A q \in Jobs : q # r => job'[q] = job[q]
  BY Finished DEF MarkPaid, Finish
<1>2. job[r].at = "markPaid"
  BY DEF MarkPaid, Finish
<1>3. /\ UNCHANGED <<ended, checkout, accepted, hooksSent, unmarked, misled>>
      /\ payable' = [q \in Payables |-> IF job[r].ref = OwnRef(q) THEN "paid" ELSE payable[q]]
  BY DEF MarkPaid
<1>4. PayableTypeOK'
  BY <1>1, <1>3 DEF PayableTypeOK
<1>5. /\ \A q \in Payables : job[r].ref = OwnRef(q) => payable'[q] = "paid"
      /\ \A q \in Payables : payable[q] = "paid" => payable'[q] = "paid"
      /\ \A q \in Payables : payable'[q] = "absent" <=> payable[q] = "absent"
      /\ \A q \in Payables : payable'[q] = "paid" /\ payable[q] # "paid" =>
            checkout[q] = "paid" \/ Excused(q)
  BY <1>2, <1>3 DEF MarksWhatWasPaid
<1>6. JobHasRow' /\ KnownHasRow'
  BY <1>1, <1>3, <1>5 DEF JobHasRow, KnownHasRow, PayableTypeOK
<1>7. BringsKnown'
  <2>1. Brought \subseteq Brought'
    BY <1>5, BroughtStays
  <2> QED
    BY <1>1, <2>1 DEF BringsKnown, Verifying
<1>8. \A s : HasSubscription(s) => HasSubscription(s)'
  BY <1>5 DEF HasSubscription
<1>9. SlotAwaited' /\ OrderAlone'
  <2>1. SlotAwaited'
    BY <1>1, <1>5, <1>8 DEF SlotAwaited, PayableTypeOK
  <2>2. OrderAlone'
    BY <1>1, <1>3 DEF OrderAlone, Ordering
  <2> QED
    BY <2>1, <2>2
<1>10. AcceptsWhatWasPaid' /\ MarksWhatWasPaid'
  BY <1>1, <1>3, <1>5 DEF AcceptsWhatWasPaid, MarksWhatWasPaid, Excused
<1>11. PaidWasPaid'
  BY <1>3, <1>5 DEF PaidWasPaid, Excused
<1>12. AcceptedIsMarked'
  BY <1>1, <1>3, <1>5 DEF AcceptedIsMarked
<1>13. SlotRestsOnSubscription'
  BY <1>5 DEF SlotRestsOnSubscription
<1> QED
  BY <1>1, <1>4, <1>6, <1>7, <1>9, <1>10, <1>11, <1>12, <1>13

\* The customer pays, or a term ends.
LEMMA OutsideStep ==
    ASSUME PayableInv, NEW p \in Payables, CustomerPays(p) \/ TermEnds(p)
    PROVE  PayableInv'
<1> USE DEF PayableInv
<1>1. /\ UNCHANGED <<payable, accepted, hooksSent, job, unmarked, misled>>
      /\ checkout' \in [Payables -> {"none", "open", "paid"}]
      /\ \A q \in Payables : checkout[q] = "paid" => checkout'[q] = "paid"
      /\ \A q \in Payables : checkout[q] = "none" <=> checkout'[q] = "none"
      /\ ended' \subseteq {q \in Payables : KindOf[q] # "booking"}
  BY DEF CustomerPays, TermEnds, PayableTypeOK
<1>2. PayableTypeOK' /\ JobsTyped'
  BY <1>1 DEF PayableTypeOK, JobsTyped
<1>3. JobHasRow' /\ BringsKnown' /\ KnownHasRow' /\ SlotAwaited'
  BY <1>1 DEF JobHasRow, BringsKnown, Brought, KnownHasRow, SlotAwaited, HasSubscription
<1>4. OrderAlone'
  BY <1>1 DEF OrderAlone, PayableTypeOK, Ordering
<1>5. AcceptsWhatWasPaid' /\ MarksWhatWasPaid' /\ PaidWasPaid'
  BY <1>1 DEF AcceptsWhatWasPaid, MarksWhatWasPaid, Excused, PaidWasPaid, PayableTypeOK
<1>6. AcceptedIsMarked' /\ SlotRestsOnSubscription'
  BY <1>1 DEF AcceptedIsMarked, SlotRestsOnSubscription
<1> QED
  BY <1>2, <1>3, <1>4, <1>5, <1>6

\* Every action keeps the invariant.
LEMMA InvKept == PayableInv /\ [PayableNext]_payableVars => PayableInv'
<1> SUFFICES ASSUME PayableInv, [PayableNext]_payableVars PROVE PayableInv'
  OBVIOUS
<1>1. ASSUME NEW r \in Jobs, NEW p \in Payables, Order(r, p) PROVE PayableInv'
  BY <1>1, OrderStep, SubscribeExtraStep DEF Order
<1>2. ASSUME NEW r \in Jobs, NEW p \in Payables, NEW via \in Providers, ReceiveWebhook(r, p, via)
      PROVE PayableInv'
  BY <1>2, ReceiveWebhookStep
<1>3. ASSUME NEW r \in Jobs, CreateSlot(r) \/ InitCheckout(r) \/ RecordInitiated(r)
      PROVE PayableInv'
  BY <1>3, CreateSlotStep, InitCheckoutStep, RecordInitiatedStep
<1>4. ASSUME NEW r \in Jobs, CheckStatus(r) \/ RecordVerified(r) \/ MarkPaid(r) PROVE PayableInv'
  BY <1>4, CheckStatusStep, RecordVerifiedStep, MarkPaidStep
<1>5. ASSUME NEW r \in Jobs, JobFails(r) PROVE PayableInv'
  BY <1>5, JobEndStep DEF JobFails
<1>6. ASSUME NEW p \in Payables, CustomerPays(p) \/ TermEnds(p) PROVE PayableInv'
  BY <1>6, OutsideStep
<1>7. CASE UNCHANGED payableVars
  BY <1>7 DEF payableVars, PayableInv, PayableTypeOK, JobsTyped, JobHasRow, BringsKnown, Brought,
              KnownHasRow, SlotAwaited, HasSubscription, OrderAlone, AcceptsWhatWasPaid,
              MarksWhatWasPaid, Excused, PaidWasPaid, AcceptedIsMarked, SlotRestsOnSubscription
<1> QED
  BY <1>1, <1>2, <1>3, <1>4, <1>5, <1>6, <1>7 DEF PayableNext

-----------------------------------------------------------------------------
\* The inductive invariant holds in every reachable state, whatever webhooks
\* come, in whatever order, and whichever requests fail.
THEOREM PayableInvariance == PayableSpec => []PayableInv
<1> QED
  BY InvInitially, InvKept, PTL DEF PayableSpec

\* Nothing is confirmed or activated whose own checkout was not paid, but in
\* simulation and for the rows that checkStatus called paid by mistake.
THEOREM OnlyPaidIsMarked == PayableSpec => []PaidWasPaid
<1>1. PayableInv => PaidWasPaid
  BY DEF PayableInv
<1> QED
  BY <1>1, PayableInvariance, PTL

\* CinetPay's webhook asks about the reference it brings: with its keys, and
\* without PayDunya's, checkStatus never answers for another row.
LEMMA NobodyMisled ==
    ASSUME Provider = "cinetpay", Keys = {"cinetpay"}
    PROVE  PayableSpec => [](misled = {})
<1> DEFINE Own == \A r \in Jobs : job[r].at = "checkStatus" =>
                     /\ job[r].via = "cinetpay" /\ job[r].row \in Payables
                     /\ job[r].says = EncodeRef(job[r].row)
           Calm == misled = {} /\ Own
<1>1. PayableInit => Calm
  BY DEF PayableInit, NoJob
<1>2. ASSUME PayableInv, Calm, PayableNext PROVE Calm'
  <2> USE DEF PayableInv
  <2>1. ASSUME NEW r \in Jobs, CheckStatus(r) PROVE Calm'
    <3>1. job[r].at = "checkStatus" /\ job[r].via = "cinetpay" /\ job[r].row \in Payables
      BY <1>2, <2>1 DEF CheckStatus, Step
    <3>2. job[r].says = EncodeRef(job[r].row)
      BY <1>2, <3>1
    <3>3. SaysPaid(job[r].via, job[r].row) => checkout[job[r].row] = "paid"
      BY <3>1 DEF SaysPaid
    <3>4. \A q \in Payables : job[r].says = EncodeRef(q) => q = job[r].row
      BY <3>1, <3>2, OneReference
    <3>5. misled' = {}
      BY <1>2, <2>1, <3>3, <3>4 DEF CheckStatus
    <3>6. PICK t \in {"recordAccepted", "recordRefused"} : Step(r, "checkStatus", t)
      BY <2>1 DEF CheckStatus
    <3>7. job'[r].at = t /\ \A q \in Jobs : q # r => job'[q] = job[q]
      BY <1>2, <3>6, Stepped DEF Awaits
    <3> QED
      BY <1>2, <3>5, <3>7
  <2>2. ASSUME NEW r \in Jobs, NEW p \in Payables, NEW via \in Providers, ReceiveWebhook(r, p, via)
        PROVE  Calm'
    <3>1. via = "cinetpay"
      BY <1>2, <2>2 DEF ReceiveWebhook, Providers
    <3>2. job' = [job EXCEPT ![r] = [NoJob EXCEPT !.at = "checkStatus", !.row = p,
                                                  !.via = via, !.says = EncodeRef(p)]]
      BY <2>2, <3>1 DEF ReceiveWebhook, References
    <3>3. EncodeRef(p) \in Strings /\ job[r] = NoJob
      BY <2>2 DEF Strings, ReceiveWebhook
    <3>4. /\ job'[r].via = "cinetpay" /\ job'[r].row = p /\ job'[r].says = EncodeRef(p)
          /\ \A q \in Jobs : q # r => job'[q] = job[q]
      BY <1>2, <3>1, <3>2, <3>3, WebhookTaken
    <3> QED
      BY <1>2, <2>2, <3>4 DEF ReceiveWebhook
  <2>3. ASSUME UNCHANGED misled,
               \A r \in Jobs : job'[r].at = "checkStatus" => job'[r] = job[r]
        PROVE  Calm'
    BY <1>2, <2>3
  <2>4. ASSUME NEW r \in Jobs, NEW p \in Payables, Order(r, p) PROVE Calm'
    <3>1. PICK s \in Ordering : Take(r, p, s)
      BY <2>4 DEF Order, Book, Subscribe, SubscribeExtra, Ordering
    <3>2. job'[r].at = s /\ \A q \in Jobs : q # r => job'[q] = job[q]
      BY <1>2, <3>1, Taken DEF Ordering, Awaits
    <3> QED
      BY <2>3, <2>4, <3>2 DEF Order, Book, Subscribe, SubscribeExtra, Ordering
  <2>5. ASSUME NEW r \in Jobs, CreateSlot(r) \/ InitCheckout(r) PROVE Calm'
    <3>1. PICK s \in Awaits, t \in {"initCheckout", "recordInitiated"} : Step(r, s, t)
      BY <2>5 DEF CreateSlot, InitCheckout, Awaits
    <3>2. job'[r].at = t /\ \A q \in Jobs : q # r => job'[q] = job[q]
      BY <1>2, <3>1, Stepped DEF Awaits
    <3> QED
      BY <2>3, <2>5, <3>2 DEF CreateSlot, InitCheckout
  <2>6. ASSUME NEW r \in Jobs, job' = [job EXCEPT ![r] = NoJob], UNCHANGED misled PROVE Calm'
    BY <1>2, <2>3, <2>6, Finished
  <2>7. ASSUME NEW r \in Jobs, RecordInitiated(r) \/ RecordVerified(r) PROVE Calm'
    <3>1. CASE job' = [job EXCEPT ![r] = NoJob]
      BY <2>6, <2>7, <3>1 DEF RecordInitiated, RecordVerified
    <3>2. CASE \E ref : job' = [job EXCEPT ![r].at = "markPaid", ![r].ref = ref]
      <4>1. job[r] \in JobRecord
        BY <1>2 DEF JobsTyped
      <4>2. job'[r].at = "markPaid" /\ \A q \in Jobs : q # r => job'[q] = job[q]
        BY <1>2, <3>2, <4>1 DEF JobsTyped, JobRecord
      <4> QED
        BY <2>3, <2>7, <4>2 DEF RecordInitiated, RecordVerified
    <3> QED
      BY <2>7, <3>1, <3>2 DEF RecordInitiated, RecordVerified, Finish
  <2>8. ASSUME NEW r \in Jobs, MarkPaid(r) \/ JobFails(r) PROVE Calm'
    BY <2>6, <2>8 DEF MarkPaid, JobFails, Finish
  <2>9. ASSUME NEW p \in Payables, CustomerPays(p) \/ TermEnds(p) PROVE Calm'
    BY <2>3, <2>9 DEF CustomerPays, TermEnds
  <2> HIDE DEF Calm
  <2> QED
    BY <1>2, <2>1, <2>2, <2>4, <2>5, <2>7, <2>8, <2>9 DEF PayableNext
<1>3. Calm /\ UNCHANGED payableVars => Calm'
  BY DEF payableVars
<1>4. Calm => misled = {}
  OBVIOUS
<1> HIDE DEF Calm
<1>5. PayableInv /\ Calm /\ [PayableNext]_payableVars => Calm'
  BY <1>2, <1>3
<1> QED
  BY <1>1, <1>4, <1>5, PayableInvariance, PTL DEF PayableSpec

\* In a deployment with the keys of CinetPay alone, every row that is marked
\* paid had its own checkout paid, or was simulated.
THEOREM OwnReferencesSuffice ==
    ASSUME Provider = "cinetpay", Keys = {"cinetpay"}
    PROVE  PayableSpec => [](\A p \in Payables : payable[p] = "paid" =>
                                checkout[p] = "paid" \/ p \in Simulated)
<1>1. PaidWasPaid /\ misled = {} =>
         \A p \in Payables : payable[p] = "paid" => checkout[p] = "paid" \/ p \in Simulated
  BY DEF PaidWasPaid
<1> QED
  BY <1>1, OnlyPaidIsMarked, NobodyMisled, PTL

\* A payment recorded under the reference of a row reaches that row, unless the
\* update failed: decodeRef undoes encodeRef for every kind (OneReference).
THEOREM PaymentFindsItsRow == PayableSpec => []AcceptedIsMarked
<1>1. PayableInv => AcceptedIsMarked
  BY DEF PayableInv
<1> QED
  BY <1>1, PayableInvariance, PTL

\* A seller who orders extra slots has had a subscription paid.
THEOREM NoSlotAlone == PayableSpec => []SlotRestsOnSubscription
<1>1. PayableInv => SlotRestsOnSubscription
  BY DEF PayableInv
<1> QED
  BY <1>1, PayableInvariance, PTL

=============================================================================

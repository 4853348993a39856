--------------------------- MODULE PjlStatus_proofs ---------------------------
(***************************************************************************)
(* Proofs about PjlStatus: types; and that, for every set of frames, size  *)
(* of the buffer and of a transfer and limit of a poll, the status is what *)
(* the whole frames of the stream mean, a poll that finds nothing wrong    *)
(* has heard everything, and a page is judged by reports of its own        *)
(* connection.                                                             *)
(***************************************************************************)
EXTENDS PjlStatus, FiniteSetTheorems, SequenceTheorems, TLAPS

-----------------------------------------------------------------------------
(* Streams that grow by one unit *)

\* What follows the last form feed.
LastFeed(s) == Max({0} \union FormFeeds(s))
Since(s)    == SubSeq(s, LastFeed(s) + 1, Len(s))

\* The frames of a stream have beginnings. Max is a CHOOSE; this says that there is
\* something to choose.
Marked(s) ==
  /\ \A i \in FormFeeds(s) : Start(s, i) \in 0..(i - 1)
  /\ LastFeed(s) \in 0..Len(s)
  /\ \A i \in FormFeeds(s) : i <= LastFeed(s)

Fits(f) == Len(f) < Capacity /\ ~Has(f, {"NUL"})

\* The largest element of a set is its maximum.
LEMMA MaxIs ==
  ASSUME NEW S \in SUBSET Nat, NEW m \in S, \A x \in S : x <= m
  PROVE  Max(S) = m
<1>1. \E x \in S : \A y \in S : x >= y
  OBVIOUS
<1>2. Max(S) \in S /\ \A y \in S : Max(S) >= y
  BY <1>1 DEF Max
<1>3. Max(S) >= m /\ Max(S) <= m /\ Max(S) \in Nat
  BY <1>2
<1> QED BY <1>3

\* A part of a stream stays the same when the stream grows.
LEMMA PartStays ==
  ASSUME NEW s \in Seq(Units), NEW u \in Units, NEW m \in Nat, NEW n \in Nat,
         n <= Len(s)
  PROVE  SubSeq(Append(s, u), m + 1, n) = SubSeq(s, m + 1, n)
OBVIOUS

LEMMA PartAndOne ==
  ASSUME NEW s \in Seq(Units), NEW u \in Units, NEW m \in Nat, m <= Len(s)
  PROVE  SubSeq(Append(s, u), m + 1, Len(s) + 1)
           = Append(SubSeq(s, m + 1, Len(s)), u)
<1>1. Len(SubSeq(s, m + 1, Len(s))) = Len(s) - m
  OBVIOUS
<1> DEFINE left == SubSeq(Append(s, u), m + 1, Len(s) + 1)
           right == Append(SubSeq(s, m + 1, Len(s)), u)
<1>2. left \in Seq(Units) /\ right \in Seq(Units)
  OBVIOUS
<1>3. Len(left) = Len(right)
  BY <1>1
<1>4. \A i \in 1..Len(left) : left[i] = right[i]
  BY <1>1
<1> QED BY <1>2, <1>3, <1>4, SeqEqual

LEMMA FormFeedsGrow ==
  ASSUME NEW s \in Seq(Units), NEW u \in Units
  PROVE  /\ FormFeeds(s) \subseteq 1..Len(s)
         /\ u.kind = "FF" =>
              FormFeeds(Append(s, u)) = FormFeeds(s) \union {Len(s) + 1}
         /\ u.kind # "FF" => FormFeeds(Append(s, u)) = FormFeeds(s)
BY DEF FormFeeds

LEMMA StartStays ==
  ASSUME NEW s \in Seq(Units), NEW u \in Units, NEW i \in FormFeeds(s)
  PROVE  Start(Append(s, u), i) = Start(s, i)
<1>1. {j \in FormFeeds(Append(s, u)) : j < i} = {j \in FormFeeds(s) : j < i}
  BY FormFeedsGrow
<1> QED BY <1>1 DEF Start

LEMMA FrameStays ==
  ASSUME NEW s \in Seq(Units), NEW u \in Units, Marked(s),
         NEW i \in FormFeeds(s)
  PROVE  FrameAt(Append(s, u), i) = FrameAt(s, i)
<1>1. Start(s, i) \in Nat /\ i - 1 \in Nat /\ i - 1 <= Len(s)
  BY FormFeedsGrow DEF Marked
<1>2. SubSeq(Append(s, u), Start(s, i) + 1, i - 1)
        = SubSeq(s, Start(s, i) + 1, i - 1)
  BY <1>1, PartStays
<1> QED BY <1>2, StartStays DEF FrameAt

\* The frame that a form feed ends is what has come since the last one.
LEMMA FrameEnds ==
  ASSUME NEW s \in Seq(Units), NEW u \in Units, Marked(s), u.kind = "FF"
  PROVE  /\ Start(Append(s, u), Len(s) + 1) = LastFeed(s)
         /\ FrameAt(Append(s, u), Len(s) + 1) = Since(s)
<1>1. {j \in FormFeeds(Append(s, u)) : j < Len(s) + 1} = FormFeeds(s)
  BY FormFeedsGrow
<1>2. Start(Append(s, u), Len(s) + 1) = LastFeed(s)
  BY <1>1 DEF Start, LastFeed
<1>3. SubSeq(Append(s, u), LastFeed(s) + 1, Len(s)) = Since(s)
  <2>1. LastFeed(s) \in Nat /\ Len(s) \in Nat
    BY DEF Marked
  <2>2. SubSeq(Append(s, u), LastFeed(s) + 1, Len(s))
          = SubSeq(s, LastFeed(s) + 1, Len(s))
    <3> HIDE DEF Marked
    <3>1. Len(s) <= Len(s)
      BY <2>1
    <3> QED BY <2>1, <3>1, PartStays
  <2> QED BY <2>2 DEF Since
<1>4. (Len(s) + 1) - 1 = Len(s)
  OBVIOUS
<1> QED BY <1>2, <1>3, <1>4 DEF FrameAt

LEMMA LastFeedGrows ==
  ASSUME NEW s \in Seq(Units), NEW u \in Units, Marked(s)
  PROVE  /\ u.kind = "FF" => LastFeed(Append(s, u)) = Len(s) + 1
         /\ u.kind # "FF" => LastFeed(Append(s, u)) = LastFeed(s)
<1>1. CASE u.kind = "FF"
  <2>1. FormFeeds(s) \subseteq 1..Len(s) /\
        FormFeeds(Append(s, u)) = FormFeeds(s) \union {Len(s) + 1}
    BY <1>1, FormFeedsGrow
  <2> DEFINE S == {0} \union FormFeeds(Append(s, u))
  <2>2. S \in SUBSET Nat /\ Len(s) + 1 \in S /\ \A x \in S : x <= Len(s) + 1
    BY <2>1
  <2> HIDE DEF S
  <2>3. Max(S) = Len(s) + 1
    BY <2>2, MaxIs
  <2> QED BY <1>1, <2>3 DEF LastFeed, S
<1>2. CASE u.kind # "FF"
  BY <1>2, FormFeedsGrow DEF LastFeed
<1> QED BY <1>1, <1>2

LEMMA SinceGrows ==
  ASSUME NEW s \in Seq(Units), NEW u \in Units, Marked(s)
  PROVE  /\ Since(s) \in Seq(Units)
         /\ u.kind = "FF" => Since(Append(s, u)) = <<>>
         /\ u.kind # "FF" => Since(Append(s, u)) = Append(Since(s), u)
<1>1. LastFeed(s) \in Nat /\ LastFeed(s) <= Len(s)
  BY DEF Marked
<1>2. Since(s) \in Seq(Units)
  BY <1>1 DEF Since
<1>3. CASE u.kind = "FF"
  <2>1. LastFeed(Append(s, u)) = Len(s) + 1 /\ Len(Append(s, u)) = Len(s) + 1
    BY <1>3, LastFeedGrows
  <2>2. SubSeq(Append(s, u), (Len(s) + 1) + 1, Len(s) + 1) = <<>>
    OBVIOUS
  <2> QED BY <1>2, <1>3, <2>1, <2>2 DEF Since
<1>4. CASE u.kind # "FF"
  <2>1. Since(Append(s, u))
          = SubSeq(Append(s, u), LastFeed(s) + 1, Len(s) + 1)
    <3>1. LastFeed(Append(s, u)) = LastFeed(s)
      BY <1>4, LastFeedGrows
    <3>2. Len(Append(s, u)) = Len(s) + 1
      OBVIOUS
    <3> QED BY <3>1, <3>2 DEF Since
  <2>2. SubSeq(Append(s, u), LastFeed(s) + 1, Len(s) + 1)
          = Append(SubSeq(s, LastFeed(s) + 1, Len(s)), u)
    BY <1>1, PartAndOne
  <2> QED BY <1>2, <1>4, <2>1, <2>2 DEF Since
<1> QED BY <1>3, <1>4

LEMMA MarkedGrows ==
  ASSUME NEW s \in Seq(Units), NEW u \in Units, Marked(s)
  PROVE  Marked(Append(s, u))
<1>1. \A i \in FormFeeds(s) : Start(Append(s, u), i) = Start(s, i)
  BY StartStays
<1>2. CASE u.kind = "FF"
  <2>1. Start(Append(s, u), Len(s) + 1) = LastFeed(s)
    BY <1>2, FrameEnds
  <2> QED BY <1>1, <1>2, <2>1, FormFeedsGrow, LastFeedGrows DEF Marked
<1>3. CASE u.kind # "FF"
  BY <1>1, <1>3, FormFeedsGrow, LastFeedGrows DEF Marked
<1> QED BY <1>2, <1>3

-----------------------------------------------------------------------------
(* What a stream that grows means *)

LEMMA ReadableGrows ==
  ASSUME NEW s \in Seq(Units), NEW u \in Units, Marked(s)
  PROVE  /\ Readable(s) \subseteq FormFeeds(s)
         /\ u.kind = "FF" => Readable(Append(s, u)) = Readable(s) \union
              (IF Fits(Since(s)) THEN {Len(s) + 1} ELSE {})
         /\ u.kind # "FF" => Readable(Append(s, u)) = Readable(s)
<1>1. \A t : Readable(t) = {i \in FormFeeds(t) : Fits(FrameAt(t, i))}
  BY DEF Readable, Fits
<1>2. \A i \in FormFeeds(s) : FrameAt(Append(s, u), i) = FrameAt(s, i)
  BY FrameStays
<1>3. CASE u.kind = "FF"
  <2>1. FrameAt(Append(s, u), Len(s) + 1) = Since(s)
    BY <1>3, FrameEnds
  <2>2. FormFeeds(Append(s, u)) = FormFeeds(s) \union {Len(s) + 1}
    BY <1>3, FormFeedsGrow
  <2> QED BY <1>1, <1>2, <1>3, <2>1, <2>2
<1>4. CASE u.kind # "FF"
  <2>1. FormFeeds(Append(s, u)) = FormFeeds(s)
    BY <1>4, FormFeedsGrow
  <2> QED BY <1>1, <1>2, <1>4, <2>1
<1> QED BY <1>3, <1>4

LEMMA EndReportsGrow ==
  ASSUME NEW s \in Seq(Units), NEW u \in Units, Marked(s)
  PROVE  EndReports(Append(s, u)) = EndReports(s) \union
           (IF u.kind = "FF" /\ Fits(Since(s)) /\ IsEndReport(Since(s))
            THEN {Len(s) + 1} ELSE {})
<1>1. \A i \in Readable(s) : FrameAt(Append(s, u), i) = FrameAt(s, i)
  BY FrameStays, ReadableGrows
<1>2. CASE u.kind = "FF"
  <2>1. FrameAt(Append(s, u), Len(s) + 1) = Since(s)
    BY <1>2, FrameEnds
  <2>2. Readable(Append(s, u)) = Readable(s) \union
              (IF Fits(Since(s)) THEN {Len(s) + 1} ELSE {})
    BY <1>2, ReadableGrows
  <2> QED BY <1>1, <1>2, <2>1, <2>2 DEF EndReports
<1>3. CASE u.kind # "FF"
  <2>1. Readable(Append(s, u)) = Readable(s)
    BY <1>3, ReadableGrows
  <2> QED BY <1>1, <1>3, <2>1 DEF EndReports
<1> QED BY <1>2, <1>3

LEMMA DeviceReportsGrow ==
  ASSUME NEW s \in Seq(Units), NEW u \in Units, Marked(s)
  PROVE  DeviceReports(Append(s, u)) = DeviceReports(s) \union
           (IF u.kind = "FF" /\ Fits(Since(s)) /\ IsDeviceReport(Since(s))
            THEN {Len(s) + 1} ELSE {})
<1>1. \A i \in Readable(s) : FrameAt(Append(s, u), i) = FrameAt(s, i)
  BY FrameStays, ReadableGrows
<1>2. CASE u.kind = "FF"
  <2>1. FrameAt(Append(s, u), Len(s) + 1) = Since(s)
    BY <1>2, FrameEnds
  <2>2. Readable(Append(s, u)) = Readable(s) \union
              (IF Fits(Since(s)) THEN {Len(s) + 1} ELSE {})
    BY <1>2, ReadableGrows
  <2> QED BY <1>1, <1>2, <2>1, <2>2 DEF DeviceReports
<1>3. CASE u.kind # "FF"
  <2>1. Readable(Append(s, u)) = Readable(s)
    BY <1>3, ReadableGrows
  <2> QED BY <1>1, <1>3, <2>1 DEF DeviceReports
<1> QED BY <1>2, <1>3

\* Codes and ONLINE of reports stay, and a new report has those of its frame.
LEMMA CodesStay ==
  ASSUME NEW s \in Seq(Units), NEW u \in Units, Marked(s)
  PROVE  /\ DeviceReports(s) \subseteq 1..Len(s)
         /\ \A i \in DeviceReports(s) :
              /\ CodeAt(Append(s, u), i) = CodeAt(s, i)
              /\ OnlineAt(Append(s, u), i) = OnlineAt(s, i)
         /\ u.kind = "FF" =>
              /\ CodeAt(Append(s, u), Len(s) + 1) = Code(Since(s))
              /\ OnlineAt(Append(s, u), Len(s) + 1) = Online(Since(s))
<1>1. DeviceReports(s) \subseteq FormFeeds(s)
  BY ReadableGrows DEF DeviceReports
<1>2. \A i \in DeviceReports(s) : FrameAt(Append(s, u), i) = FrameAt(s, i)
  BY <1>1, FrameStays
<1>3. u.kind = "FF" => FrameAt(Append(s, u), Len(s) + 1) = Since(s)
  BY FrameEnds
<1> QED BY <1>1, <1>2, <1>3, FormFeedsGrow DEF CodeAt, OnlineAt

Settles(code, online) == code >= 30000 \/ IsReady(code, online)

LEMMA SettlingGrows ==
  ASSUME NEW s \in Seq(Units), NEW u \in Units, Marked(s)
  PROVE  Settling(Append(s, u)) = Settling(s) \union
           (IF /\ u.kind = "FF" /\ Fits(Since(s)) /\ IsDeviceReport(Since(s))
               /\ Settles(Code(Since(s)), Online(Since(s)))
            THEN {Len(s) + 1} ELSE {})
<1>1. \A t : Settling(t) =
              {i \in DeviceReports(t) : Settles(CodeAt(t, i), OnlineAt(t, i))}
  BY DEF Settling, Settles
<1> QED BY <1>1, DeviceReportsGrow, CodesStay

\* A new position is the last one.
LEMMA NewIsMax ==
  ASSUME NEW n \in Nat, NEW S \in SUBSET (1..n)
  PROVE  Max(S \union {n + 1}) = n + 1
<1> DEFINE T == S \union {n + 1}
<1>1. T \in SUBSET Nat /\ n + 1 \in T /\ \A x \in T : x <= n + 1
  OBVIOUS
<1> HIDE DEF T
<1>2. Max(T) = n + 1
  BY <1>1, MaxIs
<1> QED BY <1>2 DEF T

\* The report of a frame is one of its units.
LEMMA CodeType ==
  ASSUME NEW f \in Seq(Units), IsDeviceReport(f)
  PROVE  Code(f) \in Codes /\ Online(f) \in BOOLEAN
<1>1. \E i \in DOMAIN f : f[i].kind = "CODE"
  BY DEF IsDeviceReport, Once
<1>2. PICK i \in DOMAIN f : Code(f) = f[i].code
  BY <1>1 DEF Code
<1>3. f[i] \in Units
  OBVIOUS
<1>4. Code(f) \in Codes
  BY <1>2, <1>3 DEF Units
<1> QED BY <1>4 DEF Online, Has

LEMMA LoadRequestCodes ==
  ASSUME NEW code \in Codes
  PROVE  code \in Nat /\ (IsLoadRequest(code) => code >= 30000 /\ code # 40021)
<1>1. code \in Nat
  BY DEF Codes
<1>2. ASSUME IsLoadRequest(code) PROVE code >= 30000 /\ code # 40021
  <2>1. 41000 <= code
    BY <1>2 DEF IsLoadRequest
  <2> HIDE DEF IsLoadRequest
  <2> QED BY <1>1, <2>1
<1> QED BY <1>1, <1>2

LEMMA StatedType ==
  ASSUME NEW code \in Codes, NEW online \in BOOLEAN
  PROVE  /\ Stated(code, online) \in SUBSET Conditions
         /\ Stated(code, online) \in LoadRequests <=> IsLoadRequest(code)
         /\ Stated(code, online) = {} => ~IsLoadRequest(code)
<1>1. {"cover-open"} \notin LoadRequests /\ {"fault"} \notin LoadRequests
      /\ {"not-selected"} \notin LoadRequests /\ {} \notin LoadRequests
  BY DEF LoadRequests
<1>2. IsLoadRequest(code) => code # 40021
  BY LoadRequestCodes
<1>3. CASE IsLoadRequest(code)
  <2>1. Stated(code, online) \in {{"manual-feed"}, {"media-empty"}}
    BY <1>2, <1>3 DEF Stated
  <2> QED BY <1>3, <2>1 DEF LoadRequests, Conditions
<1>4. CASE ~IsLoadRequest(code)
  <2>1. Stated(code, online) \in {{"cover-open"}, {"fault"}, {}, {"not-selected"}}
    BY <1>4 DEF Stated
  <2> QED BY <1>1, <1>4, <2>1 DEF Conditions
<1> QED BY <1>3, <1>4

-----------------------------------------------------------------------------
(* The status is what the stream means *)

\* A status st and the stream s it comes from
Right(st, s) ==
  /\ st = Meaning(s)
  /\ st.conditions \in LoadRequests <=> Asking(s)
  /\ \A i \in DeviceReports(s) :
       CodeAt(s, i) \in Codes /\ OnlineAt(s, i) \in BOOLEAN
  /\ DeviceReports(s) # {} => Max(DeviceReports(s)) \in DeviceReports(s)
  /\ Settling(s) # {} => Max(Settling(s)) \in Settling(s)

\* Streams with the same reports state the same.
LEMMA SameReports ==
  ASSUME NEW s, NEW t,
         DeviceReports(t) = DeviceReports(s), Settling(t) = Settling(s),
         \A i \in DeviceReports(s) :
           CodeAt(t, i) = CodeAt(s, i) /\ OnlineAt(t, i) = OnlineAt(s, i),
         Settling(s) \subseteq DeviceReports(s),
         DeviceReports(s) # {} => Max(DeviceReports(s)) \in DeviceReports(s),
         Settling(s) # {} => Max(Settling(s)) \in Settling(s)
  PROVE  /\ Asking(t) = Asking(s)
         /\ StatedLast(t) = StatedLast(s)
         /\ CodeLast(t) = CodeLast(s) /\ OnlineLast(t) = OnlineLast(s)
<1>1. Asking(t) = Asking(s)
  BY DEF Asking
<1>2. CodeLast(t) = CodeLast(s) /\ OnlineLast(t) = OnlineLast(s)
  BY DEF CodeLast, OnlineLast
<1>3. \A i \in DeviceReports(s) : StatedAt(t, i) = StatedAt(s, i)
  BY DEF StatedAt
<1>4. StatedLast(t) = StatedLast(s)
  BY <1>1, <1>3 DEF StatedLast, Asking
<1> QED BY <1>1, <1>2, <1>4

\* A unit that ends no report leaves the meaning alone.
LEMMA MeaningStays ==
  ASSUME NEW s \in Seq(Units), NEW u \in Units, Marked(s), NEW st, Right(st, s),
         ~(u.kind = "FF" /\ Fits(Since(s)) /\ IsEndReport(Since(s))),
         ~(u.kind = "FF" /\ Fits(Since(s)) /\ IsDeviceReport(Since(s)))
  PROVE  Right(st, Append(s, u))
<1> DEFINE t == Append(s, u)
<1>1. EndReports(t) = EndReports(s) /\ DeviceReports(t) = DeviceReports(s)
      /\ Settling(t) = Settling(s)
  BY EndReportsGrow, DeviceReportsGrow, SettlingGrows
<1>2. \A i \in DeviceReports(s) :
        CodeAt(t, i) = CodeAt(s, i) /\ OnlineAt(t, i) = OnlineAt(s, i)
  BY CodesStay
<1>3. Settling(s) \subseteq DeviceReports(s)
  BY DEF Settling
<1> HIDE DEF t
<1>4. Asking(t) = Asking(s)
  BY <1>1, <1>2, <1>3 DEF Asking, Right
<1>5. Meaning(t) = Meaning(s)
  BY <1>1, <1>2, <1>3, <1>4, SameReports DEF Meaning, Right
<1>6. Right(st, t)
  BY <1>1, <1>2, <1>4, <1>5 DEF Right
<1> QED BY <1>6 DEF t

\* The report of an end counts, and changes nothing else.
LEMMA MeaningOfEnd ==
  ASSUME NEW s \in Seq(Units), NEW u \in Units, Marked(s), Right(status, s),
         u.kind = "FF", Fits(Since(s)), IsEndReport(Since(s))
  PROVE  /\ Right(Understood(Since(s)), Append(s, u))
         /\ Len(s) + 1 \in EndReports(Append(s, u))
<1> DEFINE t == Append(s, u)
<1>1. ~IsDeviceReport(Since(s))
  BY DEF IsEndReport, IsDeviceReport
<1>2. EndReports(t) = EndReports(s) \union {Len(s) + 1}
      /\ DeviceReports(t) = DeviceReports(s) /\ Settling(t) = Settling(s)
  BY <1>1, EndReportsGrow, DeviceReportsGrow, SettlingGrows
<1>3. \A i \in DeviceReports(s) :
        CodeAt(t, i) = CodeAt(s, i) /\ OnlineAt(t, i) = OnlineAt(s, i)
  BY CodesStay
<1>4. Settling(s) \subseteq DeviceReports(s)
  BY DEF Settling
<1>5. EndReports(s) \subseteq 1..Len(s)
  BY ReadableGrows, FormFeedsGrow DEF EndReports
<1>6. Cardinality(EndReports(t)) = Cardinality(EndReports(s)) + 1
  <2>1. IsFiniteSet(EndReports(s)) /\ Len(s) + 1 \notin EndReports(s)
    BY <1>5, FS_Interval, FS_Subset
  <2> QED BY <1>2, <2>1, FS_AddElement
<1> HIDE DEF t
<1>7. Asking(t) = Asking(s)
  BY <1>2, <1>3, <1>4 DEF Asking, Right
<1>8. Understood(Since(s)) = [status EXCEPT !.completed = @ + 1]
  BY DEF Understood
<1>9. Meaning(t) = [Meaning(s) EXCEPT !.completed = @ + 1]
  <2>1. /\ StatedLast(t) = StatedLast(s) /\ CodeLast(t) = CodeLast(s)
        /\ OnlineLast(t) = OnlineLast(s)
    BY <1>2, <1>3, <1>4, <1>7, SameReports DEF Right
  <2> QED BY <1>6, <2>1 DEF Meaning
<1>10. Understood(Since(s)) = Meaning(t)
       /\ Understood(Since(s)).conditions = status.conditions
  BY <1>8, <1>9 DEF Right, Meaning
<1>11. Right(Understood(Since(s)), t)
  BY <1>2, <1>3, <1>7, <1>10 DEF Right
<1> QED BY <1>2, <1>11 DEF t

\* A report of the device, under the rule that a load request stands.
LEMMA MeaningOfReport ==
  ASSUME NEW s \in Seq(Units), NEW u \in Units, Marked(s), Right(status, s),
         u.kind = "FF", Fits(Since(s)), IsDeviceReport(Since(s))
  PROVE  Right(Understood(Since(s)), Append(s, u))
<1> DEFINE t == Append(s, u)
           n == Len(s) + 1
           code == Code(Since(s))
           online == Online(Since(s))
<1>1. code \in Codes /\ online \in BOOLEAN
  BY SinceGrows, CodeType
<1>2. ~IsEndReport(Since(s))
  BY DEF IsEndReport, IsDeviceReport
<1>3. /\ EndReports(t) = EndReports(s)
      /\ DeviceReports(t) = DeviceReports(s) \union {n}
      /\ Settling(t) = Settling(s) \union
                         (IF Settles(code, online) THEN {n} ELSE {})
  BY <1>2, EndReportsGrow, DeviceReportsGrow, SettlingGrows
<1>4. /\ \A i \in DeviceReports(s) :
           CodeAt(t, i) = CodeAt(s, i) /\ OnlineAt(t, i) = OnlineAt(s, i)
      /\ CodeAt(t, n) = code /\ OnlineAt(t, n) = online
      /\ DeviceReports(s) \subseteq 1..Len(s)
  BY CodesStay
<1>5. Settling(s) \subseteq DeviceReports(s)
  BY DEF Settling
<1>6. n \in Nat /\ n \notin DeviceReports(s)
  BY <1>4
<1>7. Max(DeviceReports(s) \union {n}) = n
  BY <1>4, NewIsMax
<1>8. Max(Settling(s) \union {n}) = n
  <2>1. Settling(s) \in SUBSET (1..Len(s))
    BY <1>4, <1>5
  <2>2. Max(Settling(s) \union {Len(s) + 1}) = Len(s) + 1
    <3>1. Len(s) \in Nat
      OBVIOUS
    <3> HIDE DEF t, n, code, online
    <3> QED BY <2>1, <3>1, NewIsMax
  <2> QED BY <2>2
<1>9. Understood(Since(s)) =
        [status EXCEPT !.code = code, !.online = online,
           !.conditions = IF Keeps(code, online) THEN status.conditions
                          ELSE Stated(code, online)]
  BY <1>2 DEF Understood
<1> HIDE DEF t, n, code, online
<1>10. CodeLast(t) = code /\ OnlineLast(t) = online /\ StatedAt(t, n) = Stated(code, online)
  <2>1. DeviceReports(t) # {} /\ Max(DeviceReports(t)) = n
    BY <1>3, <1>7
  <2>2. CodeLast(t) = code /\ OnlineLast(t) = online
    BY <1>1, <1>4, <2>1 DEF CodeLast, OnlineLast
  <2> QED BY <1>4, <2>2 DEF StatedAt
<1>11. code \in Nat /\ (IsLoadRequest(code) => code >= 30000)
  BY <1>1, LoadRequestCodes
<1>12. /\ Understood(Since(s)).conditions = StatedLast(t)
       /\ StatedLast(t) \in LoadRequests <=> Asking(t)
  <2>1. CASE Settles(code, online)
    <3>1. ~Keeps(code, online)
      BY <1>11, <2>1 DEF Keeps, Settles
    <3>2. Settling(t) # {} /\ Max(Settling(t)) = n /\ Max(DeviceReports(t)) = n
      BY <1>3, <1>7, <1>8, <2>1
    <3>3. Asking(t) <=> IsLoadRequest(code)
      <4>1. CodeAt(t, Max(Settling(t))) = code
        BY <1>4, <3>2
      <4> QED BY <3>2, <4>1 DEF Asking
    <3>4. StatedLast(t) = Stated(code, online)
      BY <1>3, <1>10, <3>2 DEF StatedLast
    <3>5. Understood(Since(s)).conditions = Stated(code, online)
      BY <1>9, <3>1 DEF Right, Meaning
    <3> QED BY <1>1, <3>3, <3>4, <3>5, StatedType
  <2>2. CASE ~Settles(code, online)
    <3>1. Settling(t) = Settling(s) /\ code < 30000 /\ ~IsReady(code, online)
          /\ ~IsLoadRequest(code)
      BY <1>3, <1>11, <2>2 DEF Settles
    <3>2. Asking(t) = Asking(s)
      BY <1>4, <1>5, <3>1 DEF Asking, Right
    <3>3. Keeps(code, online) <=> Asking(s)
      BY <3>1 DEF Keeps, Right
    <3>4. CASE Asking(s)
      <4>1. Settling(s) # {} /\ Max(Settling(s)) \in DeviceReports(s)
        BY <1>5, <3>4 DEF Asking, Right
      <4>2. StatedAt(t, Max(Settling(s))) = StatedAt(s, Max(Settling(s)))
        BY <1>4, <4>1 DEF StatedAt
      <4>3. StatedLast(t) = StatedLast(s)
        <5>1. DeviceReports(s) # {} /\ DeviceReports(t) # {}
          BY <1>3, <4>1
        <5> QED BY <3>1, <3>2, <3>4, <4>2, <5>1 DEF StatedLast
      <4>4. status.conditions = StatedLast(s)
        BY DEF Right, Meaning
      <4>5. Understood(Since(s)).conditions = status.conditions
        BY <1>9, <3>3, <3>4 DEF Right, Meaning
      <4> QED BY <3>2, <3>4, <4>3, <4>4, <4>5 DEF Right
    <3>5. CASE ~Asking(s)
      <4>1. StatedLast(t) = Stated(code, online)
        BY <1>3, <1>7, <1>10, <3>2, <3>5 DEF StatedLast
      <4>2. Understood(Since(s)).conditions = Stated(code, online)
        BY <1>9, <3>3, <3>5 DEF Right, Meaning
      <4> QED BY <1>1, <3>1, <3>2, <3>5, <4>1, <4>2, StatedType
    <3> QED BY <3>4, <3>5
  <2> QED BY <2>1, <2>2
<1>13. Understood(Since(s)) = Meaning(t)
  <2>1. status = [conditions |-> StatedLast(s), code |-> CodeLast(s),
                  online |-> OnlineLast(s),
                  completed |-> Cardinality(EndReports(s))]
    BY DEF Right, Meaning
  <2>2. Understood(Since(s)) =
          [conditions |-> Understood(Since(s)).conditions, code |-> code,
           online |-> online, completed |-> Cardinality(EndReports(t))]
    BY <1>3, <1>9, <2>1
  <2>3. Meaning(t) = [conditions |-> StatedLast(t), code |-> code,
           online |-> online, completed |-> Cardinality(EndReports(t))]
    BY <1>10 DEF Meaning
  <2> QED BY <1>12, <2>2, <2>3
<1>14. \A i \in DeviceReports(t) :
         CodeAt(t, i) \in Codes /\ OnlineAt(t, i) \in BOOLEAN
  BY <1>1, <1>3, <1>4 DEF Right
<1>15. Max(DeviceReports(t)) \in DeviceReports(t)
  BY <1>3, <1>7
<1>16. Settling(t) # {} => Max(Settling(t)) \in Settling(t)
  BY <1>3, <1>8 DEF Right
<1>17. Right(Understood(Since(s)), t)
  BY <1>12, <1>13, <1>14, <1>15, <1>16 DEF Right
<1> QED BY <1>17 DEF t

-----------------------------------------------------------------------------
(* The inductive invariant *)

\* The connection and the poll: a poll is of an open connection, has no answer
\* yet, and what a transfer has brought is parsed before the next.
Polling ==
  /\ connection # "closed" => generation < ReleaseLimit
  /\ connection = "closed" => answer = Unknown
  /\ polling => connection = "open" /\ answer = Unknown
  /\ ~polling => packet = <<>>

\* The parser holds what has come since the last form feed, unless that does not
\* fit or holds a NUL.
Buffering ==
  /\ Marked(heard)
  /\ discarding <=> ~Fits(Since(heard))
  /\ ~discarding => frame = Since(heard)

\* What the printer had said when a poll began lies in the stream.
Owing ==
  /\ polling => owed <= Len(heard) + Len(packet) + Len(wire)
  /\ polling /\ ending = "last" => owed <= Len(heard) + Len(packet)
  /\ answer = {} /\ connection = "open" =>
       owed <= Len(heard) /\ status.conditions = {}

\* The snapshot of a waiting job and the connection it was taken on
Waiting ==
  verdict = "waiting" =>
    /\ before.generation <= generation
    /\ mark.same <=> before.generation = generation
    /\ mark.same =>
         /\ mark.at <= Len(heard)
         /\ status.completed > before.completed =>
              \E i \in EndReports(heard) : i > mark.at

IInv == TypeOK /\ Polling /\ Buffering /\ Right(status, heard) /\ Owing /\ Waiting

\* A stream nothing has been heard of yet.
LEMMA EmptyStream ==
  /\ Marked(<<>>) /\ Since(<<>>) = <<>> /\ Fits(<<>>)
  /\ Silent \in [conditions: SUBSET Conditions, code: Codes, online: BOOLEAN,
                 completed: Nat]
  /\ Right(Silent, <<>>)
<1>1. Silent \in [conditions: SUBSET Conditions, code: Codes, online: BOOLEAN,
                 completed: Nat]
  BY DEF Silent, Codes
<1>2. FormFeeds(<<>>) = {}
  BY DEF FormFeeds
<1>3. LastFeed(<<>>) = 0 /\ Since(<<>>) = <<>>
  <2>1. {0} \union FormFeeds(<<>>) = {0}
    BY <1>2
  <2>2. LastFeed(<<>>) = 0
    BY <2>1, MaxIs DEF LastFeed
  <2>3. SubSeq(<<>>, 0 + 1, Len(<<>>)) = <<>>
    OBVIOUS
  <2> QED BY <2>2, <2>3 DEF Since
<1>4. Fits(<<>>) /\ Marked(<<>>)
  BY <1>2, <1>3, PjlAssumption DEF Fits, Has, Marked
<1>5. Readable(<<>>) = {} /\ EndReports(<<>>) = {} /\ DeviceReports(<<>>) = {}
      /\ Settling(<<>>) = {}
  BY <1>2 DEF Readable, EndReports, DeviceReports, Settling
<1>6. ~Asking(<<>>) /\ StatedLast(<<>>) = {} /\ CodeLast(<<>>) = 0
      /\ OnlineLast(<<>>) = FALSE
  BY <1>5 DEF Asking, StatedLast, CodeLast, OnlineLast
<1>7. Cardinality(EndReports(<<>>)) = 0
  BY <1>5, FS_EmptySet
<1>8. Silent = Meaning(<<>>)
  BY <1>6, <1>7 DEF Silent, Meaning
<1>9. {} \notin LoadRequests
  BY DEF LoadRequests
<1>10. Right(Silent, <<>>)
  BY <1>5, <1>6, <1>8, <1>9 DEF Right, Silent
<1> QED BY <1>1, <1>3, <1>4, <1>10

LEMMA InitHolds == Init => IInv
<1> SUFFICES ASSUME Init PROVE IInv
  OBVIOUS
<1> USE DEF Init
<1>1. Capacity \in Nat \ {0} /\ MaxPackets \in Nat /\ ReleaseLimit \in Nat
      /\ FrameLimit \in Nat
  BY PjlAssumption
<1>2. TypeOK
  <2>1. /\ wire \in Seq(Units) /\ said \in 0..FrameLimit
        /\ generation \in 0..ReleaseLimit
        /\ frame \in Seq(Units) /\ Len(frame) < Capacity
        /\ packets \in 0..MaxPackets /\ packet \in Seq(Units)
        /\ heard \in Seq(Units)
    BY <1>1
  <2>2. discarding \in BOOLEAN /\ polling \in BOOLEAN
    BY Zenon
  <2>3. NoSnapshot \in [generation: 0..ReleaseLimit, completed: Nat]
    BY <1>1 DEF NoSnapshot
  <2>4. NoMark \in [same: BOOLEAN, at: Nat]
    BY DEF NoMark
  <2> QED BY <2>1, <2>2, <2>3, <2>4, EmptyStream DEF TypeOK
<1>3. Buffering
  BY EmptyStream DEF Buffering
<1>4. Polling /\ Owing /\ Waiting
  BY DEF Polling, Owing, Waiting, Unknown
<1> QED BY <1>2, <1>3, <1>4, EmptyStream DEF IInv

-----------------------------------------------------------------------------
(* The steps *)

LEMMA SayKeeps == IInv /\ Say => IInv'
<1> SUFFICES ASSUME IInv, Say PROVE IInv'
  OBVIOUS
<1> USE DEF Say, parser, poll, job
<1>1. TypeOK /\ Len(wire) \in Nat /\ Len(heard) \in Nat /\ Len(packet) \in Nat
      /\ owed \in Nat
  BY DEF IInv, TypeOK
<1>2. PICK f \in Frames : wire' = wire \o f
  OBVIOUS
<1>3. f \in Seq(Units)
  BY PjlAssumption
<1>4. wire' \in Seq(Units) /\ Len(wire') = Len(wire) + Len(f) /\ Len(f) \in Nat
  BY <1>1, <1>2, <1>3 DEF TypeOK
<1>5. said' \in 0..FrameLimit
  <2>1. said \in Nat /\ FrameLimit \in Nat
    BY <1>1, PjlAssumption DEF TypeOK
  <2> QED BY <2>1
<1>6. TypeOK'
  BY <1>1, <1>4, <1>5 DEF TypeOK
<1>7. Owing'
  <2>1. polling => owed <= Len(heard) + Len(packet) + Len(wire')
    BY <1>1, <1>4 DEF IInv, Owing
  <2> QED BY <2>1 DEF IInv, Owing
<1>8. Polling' /\ Buffering' /\ Right(status, heard)' /\ Waiting'
  BY DEF IInv, Polling, Buffering, Waiting
<1> QED BY <1>6, <1>7, <1>8 DEF IInv

LEMMA ClaimKeeps == IInv /\ Claim => IInv'
<1> SUFFICES ASSUME IInv, Claim PROVE IInv'
  OBVIOUS
<1> USE DEF Claim, printer, parser, poll, job
<1>1. TypeOK'
  BY DEF IInv, TypeOK
<1>2. Polling'
  BY DEF IInv, Polling
<1>3. Buffering' /\ Right(status, heard)' /\ Waiting'
  BY DEF IInv, Buffering, Waiting
<1>4. Owing'
  <2>1. ~polling /\ answer # {}
    BY DEF IInv, Polling, Unknown
  <2> QED BY <2>1 DEF Owing
<1> QED BY <1>1, <1>2, <1>3, <1>4 DEF IInv

LEMMA DisconnectKeeps == IInv /\ Disconnect => IInv'
<1> SUFFICES ASSUME IInv, Disconnect PROVE IInv'
  OBVIOUS
<1> USE DEF Disconnect, Release, NextGeneration, ForgetStatus, job
<1>1. TypeOK /\ generation \in 0..ReleaseLimit /\ generation < ReleaseLimit
      /\ ReleaseLimit \in Nat /\ Capacity \in Nat \ {0} /\ MaxPackets \in Nat
  BY PjlAssumption DEF IInv, TypeOK, Polling
<1>2. status' = Silent /\ heard' = <<>> /\ frame' = <<>>
  OBVIOUS
<1>3. TypeOK'
  <2>1. generation' \in 0..ReleaseLimit /\ packets' \in 0..MaxPackets
        /\ Len(frame') < Capacity
    BY <1>1
  <2>2. polling' \in BOOLEAN /\ discarding' \in BOOLEAN
    BY Zenon
  <2>3. NoMark \in [same: BOOLEAN, at: Nat]
    BY DEF NoMark
  <2>4. wire' \in Seq(Units)
    <3>1. wire \in Seq(Units) /\ <<>> \in Seq(Units)
      BY <1>1 DEF TypeOK
    <3>2. wire' = wire \/ wire' = <<>>
      OBVIOUS
    <3> QED BY <3>1, <3>2
  <2> QED BY <1>1, <2>1, <2>2, <2>3, <2>4, EmptyStream DEF TypeOK
<1>4. Polling'
  BY DEF Polling
<1>5. Buffering'
  BY EmptyStream DEF Buffering
<1>6. Right(status, heard)'
  BY <1>2, EmptyStream
<1>7. Owing'
  BY DEF Owing, Unknown
<1>8. Waiting'
  BY <1>1 DEF IInv, Waiting, NoMark, TypeOK
<1> QED BY <1>3, <1>4, <1>5, <1>6, <1>7, <1>8 DEF IInv

LEMMA PollKeeps == IInv /\ Poll => IInv'
<1> SUFFICES ASSUME IInv, Poll PROVE IInv'
  OBVIOUS
<1> USE DEF Poll, printer, parser, job
<1>1. TypeOK /\ Len(wire) \in Nat /\ Len(heard) \in Nat /\ packet = <<>>
  BY DEF IInv, TypeOK, Polling
<1>2. polling' \in BOOLEAN
  BY Zenon
<1>3. answer' \in (SUBSET Conditions) \union {Unknown}
  BY PjlAssumption
<1>4. packets' \in 0..MaxPackets
  BY PjlAssumption
<1>5. owed' \in Nat
  BY <1>1
<1>6. TypeOK'
  BY <1>1, <1>2, <1>3, <1>4, <1>5 DEF TypeOK
<1>7. Polling'
  BY DEF IInv, Polling
<1>8. Owing'
  <2>1. Len(packet') = 0
    BY <1>1
  <2>2. owed' <= Len(heard') + Len(packet') + Len(wire')
    BY <1>1, <2>1
  <2>3. ~(answer' = {} /\ connection' = "open")
    BY DEF Unknown
  <2> QED BY <2>2, <2>3 DEF Owing
<1>9. Buffering' /\ Right(status, heard)' /\ Waiting'
  BY DEF IInv, Buffering, Waiting
<1> QED BY <1>6, <1>7, <1>8, <1>9 DEF IInv

LEMMA ReadKeeps == IInv /\ Read => IInv'
<1> SUFFICES ASSUME IInv, Read PROVE IInv'
  OBVIOUS
<1> USE DEF Read, parser, job
<1>1. TypeOK /\ wire \in Seq(Units) /\ Len(wire) \in Nat /\ Len(heard) \in Nat
      /\ owed \in Nat /\ Len(packet) = 0
  BY DEF IInv, TypeOK
<1>2. PICK n \in 1..PacketSize :
        /\ n <= Len(wire)
        /\ packet' = SubSeq(wire, 1, n)
        /\ wire' = SubSeq(wire, n + 1, Len(wire))
        /\ packets' = packets + 1
        /\ ending' \in {"more"} \union {e \in {"last"} : n = Len(wire)}
  OBVIOUS
<1>3. n \in Nat
  BY PjlAssumption
<1>4. /\ packet' \in Seq(Units) /\ wire' \in Seq(Units)
      /\ Len(packet') = n /\ Len(wire') = Len(wire) - n
  <2>1. /\ SubSeq(wire, 1, n) \in Seq(Units)
        /\ SubSeq(wire, n + 1, Len(wire)) \in Seq(Units)
        /\ Len(SubSeq(wire, 1, n)) = n
        /\ Len(SubSeq(wire, n + 1, Len(wire))) = Len(wire) - n
    <3> HIDE DEF Read
    <3>1. n \in 1..Len(wire)
      BY <1>1, <1>2, <1>3
    <3> QED BY <1>1, <3>1
  <2>2. packet' = SubSeq(wire, 1, n) /\ wire' = SubSeq(wire, n + 1, Len(wire))
    BY <1>2
  <2> QED BY <2>1, <2>2, Zenon
<1>5. packets' \in 0..MaxPackets
  <2>1. packets' = packets + 1 /\ packets < MaxPackets
    BY <1>2
  <2>2. packets \in Nat /\ MaxPackets \in Nat
    BY <1>1, PjlAssumption DEF TypeOK
  <2> QED BY <2>1, <2>2
<1>6. TypeOK'
  BY <1>1, <1>2, <1>4, <1>5 DEF TypeOK
<1>7. Polling'
  BY DEF IInv, Polling
<1>8. Owing'
  <2>1. owed <= Len(heard) + Len(packet) + Len(wire) /\ answer = Unknown
    BY DEF IInv, Owing, Polling
  <2>2. owed <= Len(heard) + Len(packet') + Len(wire')
    <3> HIDE DEF Read
    <3> QED BY <1>1, <1>3, <1>4, <2>1
  <2>3. ending' = "last" => owed <= Len(heard) + Len(packet')
    BY <1>1, <1>2, <1>3, <1>4, <2>1
  <2> QED BY <2>1, <2>2, <2>3 DEF Owing, Unknown
<1>9. Buffering' /\ Right(status, heard)' /\ Waiting'
  BY DEF IInv, Buffering, Waiting
<1> QED BY <1>6, <1>7, <1>8, <1>9 DEF IInv

\* A poll that ends says what it has heard, and what it found is current.
LEMMA FinishKeeps ==
  ASSUME NEW C \in SUBSET Conditions, IInv, polling, packet = <<>>, Finish(C),
         C = {} => owed <= Len(heard)
  PROVE  IInv'
<1> USE DEF Finish, printer, parser, job
<1>1. TypeOK
  BY DEF IInv
<1>2. PICK port \in PortStatus : answer' = port \union status.conditions \union C
  OBVIOUS
<1>3. answer' \in SUBSET Conditions
  BY <1>1, <1>2, PjlAssumption DEF TypeOK
<1>4. polling' \in BOOLEAN
  BY Zenon
<1>5. packets' \in 0..MaxPackets
  BY PjlAssumption
<1>6. TypeOK'
  BY <1>1, <1>3, <1>4, <1>5 DEF TypeOK
<1>7. Polling'
  BY DEF IInv, Polling
<1>8. Owing'
  <2>1. answer' = {} => C = {} /\ status.conditions = {}
    BY <1>2
  <2> QED BY <2>1 DEF Owing
<1>9. Buffering' /\ Right(status, heard)' /\ Waiting'
  BY DEF IInv, Buffering, Waiting
<1> QED BY <1>6, <1>7, <1>8, <1>9 DEF IInv

LEMMA DrainedKeeps == IInv /\ Drained => IInv'
<1> SUFFICES ASSUME IInv, Drained PROVE IInv'
  OBVIOUS
<1>1. owed \in Nat /\ Len(heard) \in Nat /\ Len(packet) = 0
  BY DEF IInv, TypeOK, Drained
<1>2. owed <= Len(heard)
  <2>1. CASE ending = "last"
    BY <1>1, <2>1 DEF IInv, Owing, Drained
  <2>2. CASE wire = <<>>
    BY <1>1, <2>2 DEF IInv, Owing, Drained
  <2> QED BY <2>1, <2>2 DEF Drained
<1> QED BY <1>2, FinishKeeps DEF Drained

LEMMA ExhaustedKeeps == IInv /\ Exhausted => IInv'
<1>1. Undrained \in SUBSET Conditions /\ Undrained # {}
  BY DEF Undrained, Conditions
<1> QED BY <1>1, FinishKeeps DEF Exhausted

LEMMA SnapshotKeeps == IInv /\ Snapshot => IInv'
<1> SUFFICES ASSUME IInv, Snapshot PROVE IInv'
  OBVIOUS
<1> USE DEF Snapshot, printer, parser, poll
<1>1. TypeOK /\ Len(heard) \in Nat /\ generation \in 0..ReleaseLimit
      /\ status.completed \in Nat
  BY DEF IInv, TypeOK
<1>2. /\ before'.generation = generation /\ before'.completed = status.completed
      /\ mark'.same = TRUE /\ mark'.at = Len(heard)
  OBVIOUS
<1>3. TypeOK'
  BY <1>1 DEF TypeOK
<1>4. Waiting'
  BY <1>1, <1>2, PjlAssumption DEF Waiting
<1>5. Polling' /\ Buffering' /\ Right(status, heard)' /\ Owing'
  BY DEF IInv, Polling, Buffering, Owing
<1> QED BY <1>3, <1>4, <1>5 DEF IInv

LEMMA JudgeKeeps == IInv /\ Judge => IInv'
<1> SUFFICES ASSUME IInv, Judge PROVE IInv'
  OBVIOUS
<1> USE DEF Judge, printer, parser, poll
<1>1. TypeOK /\ NoMark \in [same: BOOLEAN, at: Nat]
      /\ NoSnapshot \in [generation: 0..ReleaseLimit, completed: Nat]
  BY PjlAssumption DEF IInv, NoMark, NoSnapshot
<1>2. TypeOK'
  BY <1>1 DEF TypeOK
<1>3. Waiting'
  BY DEF Waiting
<1>4. Polling' /\ Buffering' /\ Right(status, heard)' /\ Owing'
  BY DEF IInv, Polling, Buffering, Owing
<1> QED BY <1>2, <1>3, <1>4 DEF IInv

LEMMA GiveUpKeeps == IInv /\ GiveUp => IInv'
<1> SUFFICES ASSUME IInv, GiveUp PROVE IInv'
  OBVIOUS
<1> USE DEF GiveUp, printer, parser, poll
<1>1. TypeOK /\ NoMark \in [same: BOOLEAN, at: Nat]
      /\ NoSnapshot \in [generation: 0..ReleaseLimit, completed: Nat]
  BY PjlAssumption DEF IInv, NoMark, NoSnapshot
<1>2. TypeOK'
  BY <1>1 DEF TypeOK
<1>3. Waiting'
  BY DEF Waiting
<1>4. Polling' /\ Buffering' /\ Right(status, heard)' /\ Owing'
  BY DEF IInv, Polling, Buffering, Owing
<1> QED BY <1>2, <1>3, <1>4 DEF IInv

LEMMA UnderstoodType ==
  ASSUME TypeOK, NEW f \in Seq(Units)
  PROVE  /\ Understood(f) \in [conditions: SUBSET Conditions, code: Codes,
                               online: BOOLEAN, completed: Nat]
         /\ ~IsEndReport(f) => Understood(f).completed = status.completed
<1> DEFINE T == [conditions: SUBSET Conditions, code: Codes,
                 online: BOOLEAN, completed: Nat]
<1>1. status \in T
  BY DEF TypeOK
<1>2. CASE IsEndReport(f)
  <2>1. Understood(f) = [status EXCEPT !.completed = @ + 1]
    BY <1>2 DEF Understood
  <2> QED BY <1>1, <1>2, <2>1
<1>3. CASE ~IsEndReport(f) /\ IsDeviceReport(f)
  <2> DEFINE conditions == IF Keeps(Code(f), Online(f)) THEN status.conditions
                           ELSE Stated(Code(f), Online(f))
  <2>1. Code(f) \in Codes /\ Online(f) \in BOOLEAN
    BY <1>3, CodeType
  <2>2. Stated(Code(f), Online(f)) \in SUBSET Conditions
    BY <2>1, StatedType
  <2>3. conditions \in SUBSET Conditions
    BY <1>1, <2>2
  <2>4. Understood(f) = [status EXCEPT !.code = Code(f), !.online = Online(f),
                                       !.conditions = conditions]
    BY <1>3 DEF Understood
  <2> HIDE DEF conditions
  <2> QED BY <1>1, <1>3, <2>1, <2>3, <2>4
<1>4. CASE ~IsEndReport(f) /\ ~IsDeviceReport(f)
  BY <1>1, <1>4 DEF Understood
<1> QED BY <1>2, <1>3, <1>4

LEMMA FitsGrows ==
  ASSUME NEW f \in Seq(Units), NEW u \in Units
  PROVE  Fits(Append(f, u)) <=>
           Len(f) + 1 < Capacity /\ u.kind # "NUL" /\ ~Has(f, {"NUL"})
<1> DEFINE g == Append(f, u)
<1>1. /\ Len(g) = Len(f) + 1 /\ DOMAIN g = DOMAIN f \union {Len(f) + 1}
      /\ g[Len(f) + 1] = u /\ \A i \in DOMAIN f : g[i] = f[i]
  OBVIOUS
<1> HIDE DEF g
<1>2. Has(g, {"NUL"}) <=> Has(f, {"NUL"}) \/ u.kind = "NUL"
  BY <1>1 DEF Has
<1>3. Fits(g) <=> Len(f) + 1 < Capacity /\ u.kind # "NUL" /\ ~Has(f, {"NUL"})
  BY <1>1, <1>2 DEF Fits
<1> QED BY <1>3 DEF g

\* The parser's buffer against the stream
LEMMA FeedBuffers == IInv /\ Feed => Buffering'
<1> SUFFICES ASSUME IInv, Feed PROVE Buffering'
  OBVIOUS
<1> DEFINE u == Head(packet)
<1>1. /\ heard \in Seq(Units) /\ packet \in Seq(Units) /\ packet # <<>>
      /\ heard' = Append(heard, u) /\ Capacity \in Nat /\ frame \in Seq(Units)
      /\ discarding \in BOOLEAN
  BY PjlAssumption DEF IInv, TypeOK, Feed
<1>2. u \in Units
  BY <1>1
<1>3. /\ Marked(heard) /\ (discarding <=> ~Fits(Since(heard)))
      /\ ~discarding => frame = Since(heard)
  BY DEF IInv, Buffering
<1>4. Marked(heard')
  BY <1>1, <1>2, <1>3, MarkedGrows
<1> HIDE DEF u
<1>5. CASE u.kind = "FF"
  <2>1. Since(heard') = <<>>
    BY <1>1, <1>2, <1>3, <1>5, SinceGrows
  <2>2. frame' = <<>> /\ discarding' = FALSE
    BY <1>5 DEF Feed, EndFrame, u
  <2> QED BY <1>4, <2>1, <2>2, EmptyStream DEF Buffering
<1>6. CASE u.kind # "FF"
  <2>1. Since(heard) \in Seq(Units) /\ Since(heard') = Append(Since(heard), u)
    BY <1>1, <1>2, <1>3, <1>6, SinceGrows
  <2>2. AppendUnit(u)
    BY <1>6 DEF Feed, u
  <2>3. Fits(Since(heard')) <=>
          /\ Len(Since(heard)) + 1 < Capacity
          /\ u.kind # "NUL" /\ ~Has(Since(heard), {"NUL"})
    BY <1>1, <1>2, <2>1, FitsGrows
  <2>4. CASE discarding
    <3>1. discarding' = TRUE
      BY <2>2, <2>4 DEF AppendUnit
    <3>2. ~Fits(Since(heard'))
      BY <1>1, <1>3, <2>1, <2>3, <2>4 DEF Fits
    <3> QED BY <1>4, <3>1, <3>2 DEF Buffering
  <2>5. CASE ~discarding
    <3>1. frame = Since(heard) /\ Fits(Since(heard))
      BY <1>3, <2>5
    <3>2. CASE u.kind = "NUL" \/ Len(frame) + 1 >= Capacity
      <4>1. discarding' = TRUE
        BY <2>2, <2>5, <3>2 DEF AppendUnit
      <4>2. ~Fits(Since(heard'))
        BY <1>1, <2>1, <2>3, <3>1, <3>2
      <4> QED BY <1>4, <4>1, <4>2 DEF Buffering
    <3>3. CASE ~(u.kind = "NUL" \/ Len(frame) + 1 >= Capacity)
      <4>1. discarding' = FALSE /\ frame' = Append(frame, u)
        BY <2>2, <2>5, <3>3 DEF AppendUnit
      <4>2. Fits(Since(heard'))
        <5>1. u.kind # "NUL" /\ Len(Since(heard)) + 1 < Capacity
          <6>1. Len(Since(heard)) \in Nat
            BY <2>1
          <6> QED BY <1>1, <3>1, <3>3, <6>1
        <5>2. ~Has(Since(heard), {"NUL"})
          BY <3>1 DEF Fits
        <5> QED BY <2>3, <5>1, <5>2
      <4> QED BY <1>4, <2>1, <3>1, <4>1, <4>2 DEF Buffering
    <3> QED BY <3>2, <3>3
  <2> QED BY <1>1, <2>4, <2>5
<1> QED BY <1>5, <1>6

\* The status against the stream, and what it counts
LEMMA FeedUnderstands ==
  IInv /\ Feed =>
    /\ Right(status', heard')
    /\ status' \in [conditions: SUBSET Conditions, code: Codes, online: BOOLEAN,
                    completed: Nat]
    /\ EndReports(heard) \subseteq EndReports(heard')
    /\ \/ status'.completed = status.completed
       \/ Len(heard) + 1 \in EndReports(heard')
<1> SUFFICES ASSUME IInv, Feed
             PROVE  /\ Right(status', heard')
                    /\ status' \in [conditions: SUBSET Conditions, code: Codes,
                                    online: BOOLEAN, completed: Nat]
                    /\ EndReports(heard) \subseteq EndReports(heard')
                    /\ \/ status'.completed = status.completed
                       \/ Len(heard) + 1 \in EndReports(heard')
  OBVIOUS
<1> DEFINE u == Head(packet)
           T == [conditions: SUBSET Conditions, code: Codes, online: BOOLEAN,
                 completed: Nat]
<1>1. /\ heard \in Seq(Units) /\ packet \in Seq(Units) /\ packet # <<>>
      /\ heard' = Append(heard, u) /\ frame \in Seq(Units)
      /\ discarding \in BOOLEAN /\ status \in T
  BY DEF IInv, TypeOK, Feed
<1>2. u \in Units
  BY <1>1
<1>3. /\ Marked(heard) /\ (discarding <=> ~Fits(Since(heard)))
      /\ ~discarding => frame = Since(heard)
      /\ Right(status, heard) /\ TypeOK
  BY DEF IInv, Buffering
<1>4. EndReports(heard) \subseteq EndReports(heard')
  BY <1>1, <1>2, <1>3, EndReportsGrow
<1>5. CASE u.kind # "FF" \/ discarding
  <2>1. status' = status
    BY <1>5 DEF Feed, EndFrame, AppendUnit
  <2>2. Right(status, Append(heard, u))
    <3> HIDE DEF u
    <3> QED BY <1>1, <1>2, <1>3, <1>5, MeaningStays
  <2> QED BY <1>1, <1>4, <2>1, <2>2
<1>6. CASE u.kind = "FF" /\ ~discarding
  <2>1. status' = Understood(frame) /\ frame = Since(heard)
        /\ Fits(Since(heard))
    BY <1>3, <1>6 DEF Feed, EndFrame
  <2>2. status' = Understood(Since(heard)) /\ status' \in T
    BY <1>1, <1>3, <2>1, UnderstoodType
  <2> HIDE DEF u, T
  <2>3. CASE IsEndReport(Since(heard))
    <3>1. Right(Understood(Since(heard)), Append(heard, u))
          /\ Len(heard) + 1 \in EndReports(Append(heard, u))
      BY <1>1, <1>2, <1>3, <1>6, <2>1, <2>3, MeaningOfEnd
    <3> QED BY <1>1, <1>4, <2>2, <3>1 DEF T
  <2>4. ~IsEndReport(Since(heard)) => status'.completed = status.completed
    BY <1>1, <1>3, <2>1, <2>2, UnderstoodType
  <2>5. CASE ~IsEndReport(Since(heard)) /\ IsDeviceReport(Since(heard))
    <3>1. Right(Understood(Since(heard)), Append(heard, u))
      BY <1>1, <1>2, <1>3, <1>6, <2>1, <2>5, MeaningOfReport
    <3> QED BY <1>1, <1>4, <2>2, <2>4, <2>5, <3>1 DEF T
  <2>6. CASE ~IsEndReport(Since(heard)) /\ ~IsDeviceReport(Since(heard))
    <3>1. status' = status
      BY <2>2, <2>6 DEF Understood
    <3>2. Right(status, Append(heard, u))
      BY <1>1, <1>2, <1>3, <2>6, MeaningStays
    <3> QED BY <1>1, <1>4, <2>2, <3>1, <3>2 DEF T
  <2> QED BY <2>3, <2>5, <2>6
<1> QED BY <1>1, <1>5, <1>6

LEMMA FeedKeeps == IInv /\ Feed => IInv'
<1> SUFFICES ASSUME IInv, Feed PROVE IInv'
  OBVIOUS
<1>1. /\ TypeOK /\ Capacity \in Nat /\ Capacity # 0
      /\ heard \in Seq(Units) /\ packet \in Seq(Units) /\ packet # <<>>
      /\ frame \in Seq(Units) /\ Len(frame) < Capacity
      /\ owed \in Nat /\ Len(wire) \in Nat
  <2>1. Capacity \in Nat \ {0}
    BY PjlAssumption
  <2>2. TypeOK /\ packet # <<>>
    BY DEF IInv, Feed
  <2> QED BY <2>1, <2>2 DEF TypeOK
<1>2. /\ packet' = Tail(packet) /\ heard' = Append(heard, Head(packet))
      /\ Head(packet) \in Units
  BY <1>1 DEF Feed
<1>3. /\ packet' \in Seq(Units) /\ Len(packet') = Len(packet) - 1
      /\ heard' \in Seq(Units) /\ Len(heard') = Len(heard) + 1
      /\ Len(packet) \in Nat /\ Len(heard) \in Nat
  BY <1>1, <1>2
<1>4. TypeOK'
  <2>1. frame' \in Seq(Units) /\ Len(frame') < Capacity
    <3>1. frame' = <<>> \/ frame' = frame
          \/ (frame' = Append(frame, Head(packet)) /\ Len(frame) + 1 < Capacity)
      <4>1. EndFrame \/ AppendUnit(Head(packet))
        BY DEF Feed
      <4>2. Len(frame) \in Nat
        BY <1>1
      <4> QED BY <1>1, <4>1, <4>2 DEF EndFrame, AppendUnit
    <3>2. Len(Append(frame, Head(packet))) = Len(frame) + 1
          /\ Append(frame, Head(packet)) \in Seq(Units)
          /\ Len(<<>>) = 0 /\ <<>> \in Seq(Units)
      BY <1>1, <1>2
    <3>3. 0 < Capacity
      BY <1>1
    <3> QED BY <1>1, <3>1, <3>2, <3>3
  <2>2. discarding' \in BOOLEAN
    <3>1. discarding' = TRUE \/ discarding' = FALSE \/ discarding' = discarding
      BY DEF Feed, EndFrame, AppendUnit
    <3> QED BY <1>1, <3>1, Zenon DEF TypeOK
  <2> QED BY <1>1, <1>3, <2>1, <2>2, FeedUnderstands
          DEF Feed, printer, job, TypeOK
<1>5. Polling'
  BY DEF IInv, Polling, Feed
<1>6. Owing'
  <2>1. UNCHANGED <<polling, owed, wire, ending, answer, connection>>
        /\ answer = Unknown
    BY DEF IInv, Polling, Feed, printer
  <2> QED BY <1>1, <1>3, <2>1 DEF IInv, Owing, Unknown
<1>7. Waiting'
  <2>1. UNCHANGED <<verdict, before, generation, mark>>
    BY DEF Feed, job
  <2>2. mark.at \in Nat /\ before.completed \in Nat
    BY <1>1 DEF TypeOK
  <2>3. ASSUME verdict = "waiting", mark.same
        PROVE  /\ mark.at <= Len(heard')
               /\ status'.completed > before.completed =>
                    \E i \in EndReports(heard') : i > mark.at
    <3>1. /\ mark.at <= Len(heard)
          /\ status.completed > before.completed =>
               \E i \in EndReports(heard) : i > mark.at
      BY <2>3 DEF IInv, Waiting
    <3>2. mark.at <= Len(heard') /\ Len(heard) + 1 > mark.at
      BY <1>3, <2>2, <3>1
    <3> QED BY <3>1, <3>2, FeedUnderstands
  <2>4. verdict = "waiting" => before.generation <= generation
                               /\ (mark.same <=> before.generation = generation)
    BY DEF IInv, Waiting
  <2> QED BY <2>1, <2>3, <2>4 DEF Waiting
<1> QED BY <1>4, <1>5, <1>6, <1>7, FeedBuffers, FeedUnderstands DEF IInv

LEMMA StepKeeps == IInv /\ [Next]_vars => IInv'
<1> SUFFICES ASSUME IInv, [Next]_vars PROVE IInv'
  OBVIOUS
<1>1. CASE UNCHANGED vars
  BY <1>1 DEF IInv, TypeOK, Polling, Buffering, Owing, Waiting, vars, printer,
              parser, poll, job
<1> QED BY <1>1, SayKeeps, ClaimKeeps, DisconnectKeeps, PollKeeps, ReadKeeps,
           FeedKeeps, DrainedKeeps, ExhaustedKeeps, SnapshotKeeps, JudgeKeeps,
           GiveUpKeeps
        DEF Next

THEOREM Invariant == Spec => []IInv
BY InitHolds, StepKeeps, PTL DEF Spec

-----------------------------------------------------------------------------
(* What follows *)

\* The variables keep their types; in particular the parser's buffer never holds
\* more than its capacity (append_char of src/pjl_status.c).
THEOREM TypeCorrect == Spec => []TypeOK
<1>1. IInv => TypeOK
  BY DEF IInv
<1> QED BY <1>1, Invariant, PTL

\* For all frames, sizes and limits, whatever way the stream is cut, the status is
\* what the whole frames heard on this connection mean (src/pjl_status.c).
THEOREM StatusOfStream == Spec => []StatusIsOfTheStream
<1>1. IInv => StatusIsOfTheStream
  BY DEF IInv, Right, StatusIsOfTheStream
<1> QED BY <1>1, Invariant, PTL

\* A status poll that finds nothing wrong has heard everything there was when it
\* began, whatever its limit (hplj_libusb_status of src/usb_libusb.c).
THEOREM NothingWrongCurrent == Spec => []NothingWrongIsCurrent
<1>1. {} \notin LoadRequests
  BY DEF LoadRequests
<1>2. IInv => NothingWrongIsCurrent
  <2> SUFFICES ASSUME IInv, answer = {}, connection = "open"
               PROVE  Len(heard) >= owed /\ ~Asking(heard)
    BY DEF NothingWrongIsCurrent
  <2>1. owed <= Len(heard) /\ status.conditions = {}
    BY DEF IInv, Owing
  <2>2. Len(heard) \in Nat /\ owed \in Nat
    BY DEF IInv, TypeOK
  <2> QED BY <1>1, <2>1, <2>2 DEF IInv, Right
<1> QED BY <1>2, Invariant, PTL

\* For any number of reconnections and polls, a page is complete only by a report
\* of its own connection that came after its snapshot, and lost only when that
\* connection is gone or mute (hplj_wait_for_output of src/pappl_runtime.c).
THEOREM VerdictRight == Spec => VerdictIsRight
<1> DEFINE A == verdict = "waiting" =>
       /\ verdict' = "completed" =>
            mark.same /\ \E i \in EndReports(heard) : i > mark.at
       /\ verdict' = "failed" => ~mark.same \/ connection # "open"
<1>1. IInv /\ [Next]_vars => [A]_vars
  <2> SUFFICES ASSUME IInv, Next, verdict = "waiting", verdict' # verdict
               PROVE  A
    OBVIOUS
  <2>1. Judge \/ GiveUp
    BY DEF Next, Say, Claim, Disconnect, Release, Poll, Read, Feed, Drained,
           Exhausted, Finish, Snapshot, job
  <2>2. mark.same <=> before.generation = generation
    BY DEF IInv, Waiting
  <2>3. CASE verdict' = "completed"
    <3>1. connection = "open" /\ generation = before.generation
          /\ status.completed > before.completed
      BY <2>1, <2>3 DEF Judge, GiveUp, Supported
    <3> QED BY <2>2, <2>3, <3>1 DEF IInv, Waiting
  <2>4. CASE verdict' = "failed"
    <3>1. connection # "open" \/ generation # before.generation
      BY <2>1, <2>4 DEF Judge, GiveUp, Supported
    <3> QED BY <2>2, <2>4, <3>1
  <2>5. CASE verdict' # "completed" /\ verdict' # "failed"
    BY <2>5
  <2> QED BY <2>3, <2>4, <2>5
<1>2. [][A]_vars <=> VerdictIsRight
  BY PTL DEF VerdictIsRight
<1> HIDE DEF A
<1> QED BY <1>1, <1>2, Invariant, PTL DEF Spec

=============================================================================

-------------------------- MODULE PrepareDataProofs --------------------------
(***************************************************************************)
(* Proofs about PrepareData, for every file, depth, number of channels,    *)
(* page size and number of bytes behind the payload; and, from "The values *)
(* of the samples" on, about Level, for every width of a byte and all      *)
(* samples.  The theorems about PrepareData rest on none of the            *)
(* assumptions about the constants of Level.                               *)
(***************************************************************************)
EXTENDS Level, TLAPS

-----------------------------------------------------------------------------
(* Division.                                                               *)

LEMMA Division ==
    ASSUME NEW x, x \in Nat, NEW a, a \in Nat, a > 0
    PROVE  /\ x \div a \in Nat /\ x % a \in 0..(a - 1)
           /\ x = a * (x \div a) + (x % a)
  OBVIOUS

LEMMA Divided ==
    ASSUME NEW a, a \in Nat, a > 0, NEW q, q \in Nat, NEW r, r \in 0..(a - 1),
           NEW d, d \in Nat, NEW s, s \in 0..(a - 1), a * q + r = a * d + s
    PROVE  q = d /\ r = s
<1>1. a * (q - d) = s - r /\ a * q \in Nat /\ a * d \in Nat
  OBVIOUS
<1>2. q - d < 1
  <2> SUFFICES ASSUME q - d >= 1 PROVE FALSE
    OBVIOUS
  <2>1. a * (q - d) >= a
    OBVIOUS
  <2> QED  BY <2>1, <1>1
<1>3. d - q < 1
  <2> SUFFICES ASSUME d - q >= 1 PROVE FALSE
    OBVIOUS
  <2>1. a * (d - q) >= a
    OBVIOUS
  <2>2. a * (d - q) = r - s
    BY <1>1
  <2> QED  BY <2>1, <2>2
<1>4. q = d
  BY <1>2, <1>3
<1> QED  BY <1>1, <1>4

LEMMA Quotient ==
    ASSUME NEW x, NEW a, a \in Nat, a > 0, NEW q, q \in Nat,
           NEW r, r \in 0..(a - 1), x = a * q + r
    PROVE  x \div a = q /\ x % a = r
<1>1. x \in Nat
  OBVIOUS
<1> DEFINE d == x \div a   s == x % a
<1>2. d \in Nat /\ s \in 0..(a - 1) /\ x = a * d + s
  BY <1>1, Division
<1> HIDE DEF d, s
<1>3. q = d /\ r = s
  BY <1>2, Divided
<1> QED  BY <1>3 DEF d, s

\* Quotients follow the order of the numbers.
LEMMA QuotientBelow ==
    ASSUME NEW x, x \in Nat, NEW a, a \in Nat, a > 0, NEW q, q \in Nat
    PROVE  /\ x < a * q <=> x \div a < q
           /\ x >= a * q <=> x \div a >= q
<1> DEFINE d == x \div a   s == x % a
<1>1. d \in Nat /\ s \in 0..(a - 1) /\ x = a * d + s
  BY Division
<1> HIDE DEF d, s
<1>2. ASSUME d < q PROVE x < a * q
  <2>1. d + 1 <= q
    BY <1>1, <1>2
  <2>2. a * (d + 1) <= a * q
    BY <2>1, <1>1
  <2>3. a * (d + 1) = a * d + a /\ a * d \in Nat /\ a * q \in Nat
    BY <1>1
  <2> QED  BY <2>2, <2>3, <1>1
<1>3. ASSUME d >= q PROVE x >= a * q
  <2>1. a * d >= a * q
    BY <1>1, <1>3
  <2>2. a * d \in Nat /\ a * q \in Nat
    BY <1>1
  <2> QED  BY <2>1, <2>2, <1>1
<1>4. a * q \in Nat
  OBVIOUS
<1>5. (x < a * q <=> d < q) /\ (x >= a * q <=> d >= q)
  BY <1>1, <1>2, <1>3, <1>4
<1> QED  BY <1>5 DEF d

-----------------------------------------------------------------------------
(* Where sample k of n goes, with ch channels.                             *)

IndexOf(k, ch, n) == (k % ch) * (n \div ch) + (k \div ch)

GoesTo(k, ch, n, place) == IndexOf(k, ch, n) = place

\* Of a sample in a whole frame: the place in the plane of its channel.
LEMMA IndexInFrame ==
    ASSUME NEW n, n \in Nat, NEW ch, ch \in Nat, ch > 0,
           NEW c, c \in 0..(ch - 1), NEW t, t \in Nat
    PROVE  GoesTo(t * ch + c, ch, n, c * (n \div ch) + t)
<1>1. t * ch + c = ch * t + c
  OBVIOUS
<1>2. (t * ch + c) \div ch = t /\ (t * ch + c) % ch = c
  BY <1>1, Quotient
<1> QED  BY <1>2 DEF GoesTo, IndexOf

\* A sample is in a frame, or behind the last whole one, at most as many of those
\* as there are channels.
Frame(k, ch, q) ==
    \/ \E t \in 0..(q - 1), c \in 0..(ch - 1) : k = t * ch + c
    \/ \E c \in 0..(ch - 1) : k = q * ch + c

LEMMA SampleCases ==
    ASSUME NEW n, n \in Nat, NEW ch, ch \in Nat, ch > 0,
           NEW k, k \in Nat, k <= n
    PROVE  /\ n \div ch \in Nat
           /\ (n \div ch) * ch <= n /\ n < (n \div ch) * ch + ch
           /\ Frame(k, ch, n \div ch)
<1> DEFINE q == n \div ch   r == n % ch   t == k \div ch   c == k % ch
<1>1. q \in Nat /\ r \in 0..(ch - 1) /\ n = ch * q + r
  BY Division
<1>2. t \in Nat /\ c \in 0..(ch - 1) /\ k = ch * t + c
  BY Division
<1> HIDE DEF q, r, t, c
<1>3. ch * q = q * ch /\ ch * t = t * ch /\ q * ch \in Nat
  BY <1>1, <1>2
<1>4. q * ch <= n /\ n < q * ch + ch
  BY <1>1, <1>3
<1>5. t <= q
  <2> SUFFICES ASSUME t >= q + 1 PROVE FALSE
    BY <1>1, <1>2
  <2>1. ch * t >= ch * (q + 1)
    BY <1>1, <1>2
  <2>2. ch * (q + 1) = ch * q + ch /\ ch * q \in Nat /\ ch * t \in Nat
    BY <1>1, <1>2
  <2> QED  BY <2>1, <2>2, <1>1, <1>2
<1>6. CASE t = q
  BY <1>1, <1>2, <1>3, <1>4, <1>6 DEF q, Frame
<1>7. CASE t # q
  <2>1. t \in 0..(q - 1)
    BY <1>1, <1>2, <1>5, <1>7
  <2> QED  BY <2>1, <1>1, <1>2, <1>3, <1>4 DEF q, Frame
<1> QED  BY <1>6, <1>7

\* Places of planes: none is that of two samples in frames.
LEMMA PlaneEnd ==
    ASSUME NEW ch, ch \in Nat, NEW q, q \in Nat,
           NEW c, c \in 0..(ch - 1), NEW t, t \in 0..(q - 1)
    PROVE  c * q + t \in Nat /\ c * q + t < q * ch
<1>1. (c + 1) * q <= ch * q
  OBVIOUS
<1>2. (c + 1) * q = c * q + q /\ c * q \in Nat /\ ch * q = q * ch /\ ch * q \in Nat
  OBVIOUS
<1> QED  BY <1>1, <1>2

LEMMA FrameEnd ==
    ASSUME NEW ch, ch \in Nat, NEW q, q \in Nat,
           NEW c, c \in 0..(ch - 1), NEW t, t \in 0..(q - 1)
    PROVE  t * ch + c \in Nat /\ t * ch + c < q * ch
<1>1. (t + 1) * ch <= q * ch
  OBVIOUS
<1>2. (t + 1) * ch = t * ch + ch /\ t * ch \in Nat /\ q * ch \in Nat
  OBVIOUS
<1> QED  BY <1>1, <1>2

\* The samples that go to place t of the plane of channel c: the one of frame t
\* and, where t is the first, one behind the last frame.
Hits(k, ch, n, c, t) ==
    IndexOf(k, ch, n) = c * (n \div ch) + t <=>
        \/ k = t * ch + c
        \/ t = 0 /\ c >= 1 /\ k = (n \div ch) * ch + c - 1

LEMMA PlaneHits ==
    ASSUME NEW n, n \in Nat, NEW ch, ch \in Nat, ch > 0,
           NEW k, k \in Nat, k <= n,
           NEW c, c \in 0..(ch - 1), NEW t, t \in 0..((n \div ch) - 1)
    PROVE  Hits(k, ch, n, c, t)
<1> DEFINE q == n \div ch
<1>1. /\ q \in Nat /\ q * ch <= n /\ n < q * ch + ch
      /\ \/ \E u \in 0..(q - 1), d \in 0..(ch - 1) : k = u * ch + d
         \/ \E d \in 0..(ch - 1) : k = q * ch + d
  <2>1. /\ n \div ch \in Nat
        /\ (n \div ch) * ch <= n /\ n < (n \div ch) * ch + ch
        /\ Frame(k, ch, n \div ch)
    BY SampleCases, Zenon
  <2> QED  BY <2>1 DEF Frame
<1>2. t \in 0..(q - 1)
  OBVIOUS
<1>3. q > 0
  BY <1>1, <1>2
<1>4. \A u \in Nat, d \in 0..(ch - 1) :
          IndexOf(u * ch + d, ch, n) = d * q + u
  <2> TAKE u \in Nat, d \in 0..(ch - 1)
  <2>1. GoesTo(u * ch + d, ch, n, d * (n \div ch) + u)
    BY IndexInFrame, Zenon
  <2> QED  BY <2>1 DEF GoesTo
<1> HIDE DEF q
<1>5. c * q \in Nat /\ q * ch \in Nat /\ t * ch + c \in Nat /\ t * ch + c < q * ch
  BY <1>1, <1>2, FrameEnd
<1>6. ASSUME NEW u \in 0..(q - 1), NEW d \in 0..(ch - 1), k = u * ch + d
      PROVE  IndexOf(k, ch, n) = c * q + t <=>
                 \/ k = t * ch + c
                 \/ t = 0 /\ c >= 1 /\ k = q * ch + c - 1
  <2>1. IndexOf(k, ch, n) = d * q + u
    BY <1>1, <1>4, <1>6
  <2>2. k < q * ch /\ k \in Nat
    BY <1>1, <1>6, FrameEnd
  <2>3. c >= 1 => k # q * ch + c - 1
    BY <2>2, <1>5
  <2>4. ASSUME d * q + u = c * q + t PROVE k = t * ch + c
    <3>1. q * d + u = q * c + t
      BY <2>4, <1>1
    <3>2. d = c /\ u = t
      BY <3>1, <1>1, <1>2, <1>3, Divided
    <3> QED  BY <3>2, <1>6
  <2>5. ASSUME k = t * ch + c PROVE d * q + u = c * q + t
    <3>1. ch * u + d = ch * t + c
      BY <2>5, <1>1, <1>2, <1>6
    <3>2. d = c /\ u = t
      BY <3>1, <1>1, <1>2, Divided
    <3> QED  BY <3>2
  <2> QED  BY <2>1, <2>3, <2>4, <2>5
<1>7. ASSUME NEW d \in 0..(ch - 1), k = q * ch + d
      PROVE  IndexOf(k, ch, n) = c * q + t <=>
                 \/ k = t * ch + c
                 \/ t = 0 /\ c >= 1 /\ k = q * ch + c - 1
  <2>1. IndexOf(k, ch, n) = d * q + q
    BY <1>1, <1>4, <1>7
  <2>2. k # t * ch + c
    BY <1>5, <1>7
  <2>3. ASSUME d * q + q = c * q + t PROVE t = 0 /\ c = d + 1
    <3>1. q * (d + 1) + 0 = q * c + t
      BY <2>3, <1>1
    <3>2. d + 1 \in Nat /\ 0 \in 0..(q - 1)
      BY <1>1, <1>3
    <3> QED  BY <3>1, <3>2, <1>1, <1>2, <1>3, Divided
  <2>4. ASSUME t = 0, c = d + 1 PROVE d * q + q = c * q + t
    BY <2>4, <1>1
  <2>5. k = q * ch + c - 1 <=> c = d + 1
    BY <1>5, <1>7
  <2> QED  BY <2>1, <2>2, <2>3, <2>4, <2>5
<1>8. IndexOf(k, ch, n) = c * q + t <=>
          \/ k = t * ch + c
          \/ t = 0 /\ c >= 1 /\ k = q * ch + c - 1
  BY <1>1, <1>6, <1>7
<1> QED  BY <1>8 DEF q, Hits

\* No sample goes behind the last, and the one behind the last (that of a
\* fraction) only in a mono file.
LEMMA IndexBounds ==
    ASSUME NEW n, n \in Nat, n > 0, NEW ch, ch \in Nat, ch > 0,
           NEW k, k \in Nat, k <= n
    PROVE  /\ IndexOf(k, ch, n) \in Nat
           /\ IndexOf(k, ch, n) < n \/ (IndexOf(k, ch, n) = n /\ k = n /\ ch = 1)
<1> DEFINE q == n \div ch
<1>1. /\ q \in Nat /\ q * ch <= n /\ n < q * ch + ch
      /\ \/ \E u \in 0..(q - 1), d \in 0..(ch - 1) : k = u * ch + d
         \/ \E d \in 0..(ch - 1) : k = q * ch + d
  <2>1. /\ n \div ch \in Nat
        /\ (n \div ch) * ch <= n /\ n < (n \div ch) * ch + ch
        /\ Frame(k, ch, n \div ch)
    BY SampleCases, Zenon
  <2> QED  BY <2>1 DEF Frame
<1>4. \A u \in Nat, d \in 0..(ch - 1) :
          IndexOf(u * ch + d, ch, n) = d * q + u
  <2> TAKE u \in Nat, d \in 0..(ch - 1)
  <2>1. GoesTo(u * ch + d, ch, n, d * (n \div ch) + u)
    BY IndexInFrame, Zenon
  <2> QED  BY <2>1 DEF GoesTo
<1> HIDE DEF q
<1>5. q * ch \in Nat
  BY <1>1
<1>6. ASSUME NEW u \in 0..(q - 1), NEW d \in 0..(ch - 1), k = u * ch + d
      PROVE  IndexOf(k, ch, n) \in Nat /\ IndexOf(k, ch, n) < n
  <2>1. IndexOf(k, ch, n) = d * q + u
    BY <1>1, <1>4, <1>6
  <2>2. d * q + u \in Nat /\ d * q + u < q * ch
    BY <1>1, PlaneEnd
  <2> QED  BY <2>1, <2>2, <1>1, <1>5
<1>7. ASSUME NEW d \in 0..(ch - 1), k = q * ch + d
      PROVE  /\ IndexOf(k, ch, n) \in Nat
             /\ \/ IndexOf(k, ch, n) < n
                \/ IndexOf(k, ch, n) = n /\ k = n /\ ch = 1
  <2>1. IndexOf(k, ch, n) = (d + 1) * q /\ (d + 1) * q \in Nat
    BY <1>1, <1>4, <1>7
  <2>2. CASE d + 1 < ch
    <3>1. (d + 2) * q <= ch * q
      BY <2>2, <1>1
    <3>2. (d + 2) * q = (d + 1) * q + q /\ ch * q = q * ch
      BY <1>1
    <3>3. q > 0 => IndexOf(k, ch, n) < n
      BY <3>1, <3>2, <2>1, <1>1, <1>5
    <3>4. q = 0 => IndexOf(k, ch, n) = 0
      BY <2>1
    <3> QED  BY <3>3, <3>4, <2>1, <1>1
  <2>3. CASE d + 1 = ch
    <3>1. (d + 1) * q = q * ch
      BY <2>3, <1>1
    <3>2. IndexOf(k, ch, n) = n => d = 0
      BY <3>1, <2>1, <1>1, <1>5, <1>7
    <3> QED  BY <3>1, <3>2, <2>1, <2>3, <1>1, <1>5, <1>7
  <2> QED  BY <2>2, <2>3
<1> QED  BY <1>1, <1>6, <1>7

-----------------------------------------------------------------------------
(* Pages.                                                                  *)

LEMMA Pages == PageSize \in Nat /\ PageSize > 0
  BY PageAssumption

LEMMA AlignFacts ==
    ASSUME NEW size, size \in Nat
    PROVE  /\ AlignSize(size) \in Nat
           /\ size <= AlignSize(size) /\ AlignSize(size) < size + PageSize
           /\ AlignSize(size) = PageSize * ((size + PageSize - 1) \div PageSize)
           /\ (size + PageSize - 1) \div PageSize \in Nat
<1> DEFINE x == size + PageSize - 1   q == x \div PageSize   r == x % PageSize
<1>1. x \in Nat
  BY Pages
<1>2. q \in Nat /\ r \in 0..(PageSize - 1) /\ x = PageSize * q + r
  BY <1>1, Pages, Division
<1>3. AlignSize(size) = q * PageSize
  BY DEF AlignSize
<1> HIDE DEF q, r
<1>4. q * PageSize = PageSize * q /\ PageSize * q \in Nat
  BY <1>2, Pages
<1> QED  BY <1>2, <1>3, <1>4, Pages DEF q

LEMMA AlignMonotone ==
    ASSUME NEW size, size \in Nat, NEW less, less \in Nat, less <= size
    PROVE  /\ AlignSize(less) <= AlignSize(size)
           /\ AlignSize(size) - AlignSize(less) \in Nat
           /\ (AlignSize(size) - AlignSize(less)) % PageSize = 0
<1> DEFINE x == size + PageSize - 1   y == less + PageSize - 1
           q == x \div PageSize   d == y \div PageSize
<1>1. x \in Nat /\ y \in Nat /\ y <= x
  BY Pages
<1>2. q \in Nat /\ d \in Nat
  BY <1>1, Pages, Division
<1>3. /\ AlignSize(size) = PageSize * q /\ AlignSize(less) = PageSize * d
  BY AlignFacts
<1>4. /\ y < PageSize * (q + 1) <=> y \div PageSize < q + 1
      /\ x < PageSize * (q + 1) <=> x \div PageSize < q + 1
  <2>1. q + 1 \in Nat
    BY <1>2
  <2> HIDE DEF x, y
  <2> QED  BY <2>1, <1>1, Pages, QuotientBelow
<1>5. y \div PageSize = d /\ x \div PageSize = q
  OBVIOUS
<1> HIDE DEF x, y, q, d
<1>6. PageSize * (q + 1) \in Nat
  BY <1>2, Pages
<1>7. d <= q
  BY <1>1, <1>2, <1>4, <1>5, <1>6
<1>8. q - d \in Nat /\ AlignSize(size) - AlignSize(less) = PageSize * (q - d) + 0
  BY <1>2, <1>3, <1>7, Pages
<1>9. PageSize * (q - d) \in Nat
  BY <1>8, Pages
<1>10. (AlignSize(size) - AlignSize(less)) % PageSize = 0
  <2>1. 0 \in 0..(PageSize - 1)
    BY Pages
  <2> QED  BY <2>1, <1>8, Pages, Quotient
<1> QED  BY <1>2, <1>3, <1>8, <1>9, <1>10, Pages

LEMMA AlignZero == AlignSize(0) = 0
<1>1. AlignSize(0) = PageSize * ((0 + PageSize - 1) \div PageSize)
  BY AlignFacts
<1>2. 0 + PageSize - 1 = PageSize * 0 + (PageSize - 1)
  BY Pages
<1>3. (0 + PageSize - 1) \div PageSize = 0
  <2>1. 0 \in Nat /\ PageSize - 1 \in 0..(PageSize - 1)
    BY Pages
  <2> QED  BY <2>1, <1>2, Pages, Quotient
<1> QED  BY <1>1, <1>3, Pages

LEMMA AlignWhole ==
    ASSUME NEW size, size \in Nat
    PROVE  AlignSize(size) % PageSize = 0
<1>1. AlignSize(0) <= AlignSize(size) /\ (AlignSize(size) - AlignSize(0)) % PageSize = 0
  BY AlignMonotone
<1>2. AlignSize(size) - AlignSize(0) = AlignSize(size)
  BY AlignZero, AlignFacts
<1> QED  BY <1>1, <1>2

-----------------------------------------------------------------------------
(* The file.                                                               *)

Ch == parsed_file_info.channels

Accepted == parsed_file_info.result = "SUCCESS" /\ BytesPerSample > 0

InSwitch == parsed_file_info.bits_per_sample \in Depths

\* The samples copied so far.
Done == i \div BytesPerSample

LEMMA FileFacts ==
    ASSUME TypeOK
    PROVE  /\ parsed_file_info \in ParsedFileInfo
           /\ parsed_file_info.size \in Nat /\ Ch \in Nat
           /\ parsed_file_info.bits_per_sample \in Nat
           /\ parsed_file_info.data_type \in DataTypes
           /\ BytesPerSample \in Nat
           /\ BytesPerSample > 0 => SampleCount \in Nat
<1>1. parsed_file_info \in ParsedFileInfo
  BY InfosAssumption DEF TypeOK
<1>2. /\ parsed_file_info.size \in Nat /\ Ch \in Nat
      /\ parsed_file_info.bits_per_sample \in Nat
      /\ parsed_file_info.data_type \in DataTypes
  BY <1>1 DEF ParsedFileInfo, Ch
<1>3. BytesPerSample \in Nat
  BY <1>2, Division DEF BytesPerSample
<1>4. BytesPerSample > 0 => SampleCount \in Nat
  BY <1>2, <1>3, Division DEF SampleCount
<1> QED  BY <1>1, <1>2, <1>3, <1>4

\* Every depth of the switch has a sample of whole bytes.
LEMMA DepthFacts == InSwitch => BytesPerSample > 0
  BY DEF InSwitch, Depths, BytesPerSample

\* What the loop does depends on the file alone.
LEMMA SameFile ==
    ASSUME UNCHANGED parsed_file_info
    PROVE  /\ BytesPerSample' = BytesPerSample /\ SampleCount' = SampleCount
           /\ SizeToAllocate' = SizeToAllocate /\ Ch' = Ch
           /\ Accepted' = Accepted /\ InSwitch' = InSwitch
           /\ CopiedSamples' = CopiedSamples /\ Frames' = Frames
           /\ Ragged' = Ragged /\ Incomplete' = Incomplete
           /\ HasSamples' = HasSamples
  BY DEF BytesPerSample, SampleCount, SizeToAllocate, Ch, Accepted, InSwitch,
         CopiedSamples, Frames, Ragged, Incomplete, HasSamples

-----------------------------------------------------------------------------
(* The inductive invariant.                                                *)

\* The mapping, while there is one, has room for the copy.
Mapping ==
    /\ mapped = 0 => data = << >>
    /\ pc = "done" => data = << >>
    /\ mapped > 0 => Accepted /\ memory /\ SampleCount > 0
    /\ mapped > 0 /\ pc # "done" =>
          /\ mapped = AlignSize(SizeToAllocate)
          /\ DOMAIN data = 0..(mapped \div 4 - 1)

Stages == {"measure", "analyze", "unload"}

\* The loop counts whole samples, of a depth it is for, with a place to go to.
Copying ==
    /\ pc = "allocate" => i = 0 /\ mapped = 0
    /\ pc = "deinterleave" => Accepted
    /\ pc \in {"deinterleave"} \cup Stages /\ Accepted /\ mapped = 0 =>
          ~memory \/ SampleCount = 0
    /\ Accepted =>
          i = BytesPerSample * Done /\ i < parsed_file_info.size + BytesPerSample
    /\ i > 0 => Accepted /\ InSwitch /\ Ch > 0
    /\ i > 0 /\ pc # "done" => mapped > 0

\* What prepare_data returned: a rejected record, or a whole copy.
Returned ==
    /\ pc \in Stages =>
          \/ /\ parsed_file_info.result # "SUCCESS"
             /\ prepared_data.channels = 0
          \/ /\ Accepted
             /\ prepared_data = [size |-> SampleCount, channels |-> Ch,
                                 data_type |-> parsed_file_info.data_type,
                                 result |-> "SUCCESS"]
             /\ InSwitch => i >= parsed_file_info.size
             /\ ~InSwitch => ndebug
    /\ pc \in {"allocate", "deinterleave"} => prepared_data = NotPrepared
    /\ pc \in {"analyze", "unload"} => prepared_data.channels > 0

\* What is in place t of the plane of channel c so far.
PlaneValue(c, t) ==
    LET behind == Frames * Ch + c - 1
        k == t * Ch + c IN
    IF t = 0 /\ c >= 1 /\ behind < Done
    THEN Sample(behind, WrittenMember(parsed_file_info))
    ELSE IF k < Done THEN Sample(k, WrittenMember(parsed_file_info)) ELSE Zero

Layout ==
    mapped > 0 /\ pc # "done" /\ Ch > 0 =>
        \A c \in 0..(Ch - 1), t \in 0..(Frames - 1) :
            data[c * Frames + t] = PlaneValue(c, t)

Read(n) == [element |-> data[n], as |-> ReadMember(prepared_data)]

\* The planes are read one behind the other, so the elements are read in order.
Reading ==
    /\ pc \in {"allocate", "deinterleave", "measure"} =>
          channel = 0 /\ sample = 0 /\ seen = {}
    /\ pc \in {"analyze", "unload"} =>
          /\ channel <= prepared_data.channels /\ sample <= SampleCountChannel
          /\ channel = prepared_data.channels => sample = 0
          /\ 0..(channel * SampleCountChannel + sample - 1) \subseteq DOMAIN data
          /\ seen = {Read(n) : n \in 0..(channel * SampleCountChannel + sample - 1)}
    /\ pc = "unload" => channel = prepared_data.channels

CopyInv ==
    /\ TypeOK /\ Mapping /\ Copying /\ Returned /\ WritesInBounds /\ Layout
    /\ Reading /\ ReadAsWritten /\ LevelCoversFile

LEMMA InitCopyInv == Init => CopyInv
<1> SUFFICES ASSUME Init PROVE CopyInv
  OBVIOUS
<1>1. /\ pc = "allocate" /\ i = 0 /\ mapped = 0 /\ data = << >> /\ seen = {}
      /\ prepared_data = NotPrepared /\ channel = 0 /\ sample = 0
      /\ parsed_file_info \in ParsedInfos
  BY DEF Init
<1>2. TypeOK
  <2>1. mapped % PageSize = 0
    BY <1>1, AlignZero, AlignWhole
  <2>2. DOMAIN data = {} /\ data \in [DOMAIN data -> Elements]
    BY <1>1
  <2>3. NotPrepared \in [size : Nat, channels : Nat, data_type : DataTypes,
                         result : {"SUCCESS", "ERROR", "INVALID_PARSED_FILE_INFO"}]
    BY DEF NotPrepared, DataTypes
  <2> QED  BY <1>1, <2>1, <2>2, <2>3 DEF Init, TypeOK
<1>3. Mapping
  BY <1>1 DEF Mapping
<1>4. Copying
  <2>1. Accepted => i = BytesPerSample * Done
                    /\ i < parsed_file_info.size + BytesPerSample
    <3> SUFFICES ASSUME Accepted
                 PROVE  /\ i = BytesPerSample * Done
                        /\ i < parsed_file_info.size + BytesPerSample
      OBVIOUS
    <3>1. BytesPerSample \in Nat /\ BytesPerSample > 0
          /\ parsed_file_info.size \in Nat
      BY <1>2, FileFacts DEF Accepted
    <3>2. 0 = BytesPerSample * 0 + 0 /\ 0 \in 0..(BytesPerSample - 1)
      BY <3>1
    <3>3. Done = 0
      BY <3>1, <3>2, <1>1, Quotient DEF Done
    <3> QED  BY <3>1, <3>3, <1>1
  <2> QED  BY <1>1, <2>1 DEF Copying, Stages
<1>5. Returned /\ Layout /\ Reading
  BY <1>1 DEF Returned, Layout, Reading, Stages
<1>6. WritesInBounds
  BY <1>1 DEF WritesInBounds
<1>7. ReadAsWritten /\ LevelCoversFile
  BY <1>1 DEF ReadAsWritten, LevelCoversFile
<1> QED  BY <1>2, <1>3, <1>4, <1>5, <1>6, <1>7 DEF CopyInv

LEMMA StepSame ==
    ASSUME [Next]_vars
    PROVE  UNCHANGED <<ndebug, memory, tail, parsed_file_info>>
  BY DEF Next, vars, SameInput, Reject, Allocate, Deinterleave, FinishCopy, Measure,
         AnalyzeSample, NextChannel, NextChannelBy, Report, UnloadPreparedData

LEMMA StepTypeOK == CopyInv /\ [Next]_vars => TypeOK'
<1> SUFFICES ASSUME CopyInv, [Next]_vars PROVE TypeOK'
  OBVIOUS
<1>1. TypeOK /\ Mapping /\ Copying /\ Returned
  BY DEF CopyInv
<1>2. UNCHANGED <<ndebug, memory, tail, parsed_file_info>>
  BY StepSame
<1>3. /\ parsed_file_info.size \in Nat /\ Ch \in Nat
      /\ parsed_file_info.data_type \in DataTypes
      /\ BytesPerSample \in Nat /\ (BytesPerSample > 0 => SampleCount \in Nat)
  BY <1>1, FileFacts
<1>4. CASE Reject
  BY <1>1, <1>2, <1>4 DEF TypeOK, Reject, Abort
<1>5. CASE Allocate
  <2>1. CASE UNCHANGED <<mapped, data>> /\ pc' \in {"trap", "abort", "deinterleave"}
    BY <1>1, <1>2, <1>5, <2>1 DEF TypeOK, Allocate
  <2>2. CASE /\ BytesPerSample # 0 /\ memory /\ SizeToAllocate > 0
             /\ pc' = "deinterleave"
             /\ mapped' = AlignSize(SizeToAllocate)
             /\ data' = [n \in 0..(mapped' \div 4 - 1) |-> Zero]
    <3>1. SizeToAllocate \in Nat
      BY <1>3, <2>2 DEF SizeToAllocate
    <3>2. mapped' \in Nat /\ mapped' % PageSize = 0
      BY <3>1, <2>2, AlignFacts, AlignWhole
    <3>3. data' \in [DOMAIN data' -> Elements] /\ DOMAIN data' = 0..(mapped' \div 4 - 1)
      BY <2>2 DEF Elements
    <3> QED  BY <1>1, <1>2, <1>5, <2>2, <3>2, <3>3 DEF TypeOK, Allocate
  <2> QED  BY <1>5, <2>1, <2>2 DEF Allocate, Trap, Abort
<1>6. CASE FinishCopy
  <2>1. Accepted
    BY <1>1, <1>6 DEF FinishCopy, Copying
  <2>2. [size |-> SampleCount, channels |-> parsed_file_info.channels,
         data_type |-> parsed_file_info.data_type, result |-> "SUCCESS"]
            \in [size : Nat, channels : Nat, data_type : DataTypes,
                 result : {"SUCCESS", "ERROR", "INVALID_PARSED_FILE_INFO"}]
    BY <1>3, <2>1 DEF Accepted, Ch
  <2> QED  BY <1>1, <1>2, <1>6, <2>2 DEF TypeOK, FinishCopy, Abort
<1>7. CASE Deinterleave
  <2>1. i' = i \/ i' = i + BytesPerSample
    BY <1>7 DEF Deinterleave
  <2>2. i' \in Nat
    BY <2>1, <1>1, <1>3 DEF TypeOK
  <2>3. Accepted /\ BytesPerSample > 0
    BY <1>1, <1>7 DEF Deinterleave, Copying, Accepted
  <2>4. i \div BytesPerSample \in Nat
    BY <1>1, <1>3, <2>3, Division DEF TypeOK
  <2> DEFINE index == GetDeinterleavedIndex(i, parsed_file_info.channels,
                                            parsed_file_info.size, BytesPerSample)
             value == Sample(i \div BytesPerSample, WrittenMember(parsed_file_info))
  <2>5. value \in Elements
    BY <2>4 DEF Sample, Elements, WrittenMember
  <2>6. /\ data' = data \/ (index \in DOMAIN data /\ data' = [data EXCEPT ![index] = value])
        /\ UNCHANGED <<mapped, prepared_data, channel, sample, seen>>
        /\ pc' \in {"trap", "deinterleave"}
    BY <1>7 DEF Deinterleave, Trap
  <2> HIDE DEF index, value
  <2>7. DOMAIN data' = DOMAIN data /\ data' \in [DOMAIN data' -> Elements]
    BY <1>1, <2>5, <2>6 DEF TypeOK
  <2> QED  BY <1>1, <1>2, <2>2, <2>6, <2>7 DEF TypeOK
<1>8. CASE Measure \/ Report
  BY <1>1, <1>2, <1>8 DEF TypeOK, Measure, Report, Trap, SameCopy
<1>9. CASE AnalyzeSample
  <2> DEFINE index == sample + channel * SampleCountChannel
  <2>1. /\ pc' \in {"analyze", "trap"} /\ UNCHANGED <<channel, i, mapped, data, prepared_data>>
        /\ \/ UNCHANGED <<seen, sample>>
           \/ /\ index \in DOMAIN data /\ sample' = sample + 1
              /\ seen' = seen \cup {Read(index)}
    BY <1>9 DEF AnalyzeSample, SameCopy, Trap, Read
  <2> HIDE DEF index
  <2>2. index \in DOMAIN data =>
            Read(index) \in [element : Elements, as : {"i32", "f32"}]
    BY <1>1 DEF TypeOK, Read, ReadMember
  <2>3. sample' \in Nat
    BY <1>1, <2>1 DEF TypeOK
  <2>4. seen' \subseteq [element : Elements, as : {"i32", "f32"}]
    BY <1>1, <2>1, <2>2 DEF TypeOK
  <2> QED  BY <1>1, <1>2, <2>1, <2>3, <2>4 DEF TypeOK
<1>10. CASE NextChannel
  BY <1>1, <1>2, <1>10 DEF TypeOK, NextChannel, NextChannelBy, SameCopy
<1>11. CASE UnloadPreparedData
  <2>1. /\ pc = "unload" /\ pc' = "done" /\ data' = << >>
        /\ mapped' = IF mapped = 0 THEN 0
                     ELSE mapped - AlignSize(prepared_data.size)
        /\ UNCHANGED <<i, prepared_data, channel, sample, seen>>
    BY <1>11 DEF UnloadPreparedData
  <2>2. mapped' \in Nat /\ mapped' % PageSize = 0
    <3>1. CASE mapped = 0
      BY <2>1, <3>1, AlignZero, AlignWhole
    <3>2. CASE mapped # 0
      <4>1. mapped > 0
        BY <1>1, <3>2 DEF TypeOK
      <4>2. mapped = AlignSize(SizeToAllocate) /\ Accepted
        BY <1>1, <2>1, <4>1 DEF Mapping
      <4>3. prepared_data.size = SampleCount
        BY <1>1, <2>1, <4>2 DEF Returned, Stages, Accepted
      <4>4. SampleCount \in Nat /\ SizeToAllocate = SampleCount * 4
        BY <1>3, <4>2 DEF Accepted, SizeToAllocate
      <4>5. /\ AlignSize(SizeToAllocate) - AlignSize(SampleCount) \in Nat
            /\ (AlignSize(SizeToAllocate) - AlignSize(SampleCount)) % PageSize = 0
        <5>1. SizeToAllocate \in Nat /\ SampleCount <= SizeToAllocate
          BY <4>4
        <5> QED  BY <5>1, <4>4, AlignMonotone
      <4> QED  BY <2>1, <3>2, <4>2, <4>3, <4>5
    <3> QED  BY <3>1, <3>2
  <2>3. DOMAIN data' = {} /\ data' \in [DOMAIN data' -> Elements]
    BY <2>1
  <2> QED  BY <1>1, <1>2, <2>1, <2>2, <2>3 DEF TypeOK
<1>12. CASE UNCHANGED vars
  BY <1>1, <1>12 DEF TypeOK, vars
<1> QED  BY <1>4, <1>5, <1>6, <1>7, <1>8, <1>9, <1>10, <1>11, <1>12 DEF Next

\* The steps behind the copy, and in front of it, leave the copy alone.
LEMMA CopySame ==
    ASSUME [Next]_vars, ~Allocate, ~Deinterleave, ~UnloadPreparedData
    PROVE  UNCHANGED <<i, mapped, data>>
  BY DEF Next, vars, SameCopy, Reject, FinishCopy, Measure, AnalyzeSample,
         NextChannel, NextChannelBy, Report

LEMMA StepMapping == CopyInv /\ [Next]_vars => Mapping'
<1> SUFFICES ASSUME CopyInv, [Next]_vars PROVE Mapping'
  OBVIOUS
<1>1. TypeOK /\ Mapping /\ Copying
  BY DEF CopyInv
<1>2. /\ UNCHANGED <<memory, parsed_file_info>>
      /\ SampleCount' = SampleCount /\ Accepted' = Accepted
      /\ SizeToAllocate' = SizeToAllocate
  BY StepSame, SameFile
<1>3. \A size : AlignSize(size)' = AlignSize(size)
  BY DEF AlignSize
<1>4. CASE Allocate
  <2>1. CASE UNCHANGED <<mapped, data>>
    BY <1>1, <1>4, <2>1 DEF Mapping, Copying, Allocate
  <2>2. CASE /\ BytesPerSample # 0 /\ memory /\ SizeToAllocate > 0
             /\ pc' = "deinterleave"
             /\ mapped' = AlignSize(SizeToAllocate)
             /\ data' = [n \in 0..(mapped' \div 4 - 1) |-> Zero]
    <3>1. Accepted
      BY <1>1, <1>4, <2>2, FileFacts DEF Accepted, Allocate
    <3>2. SampleCount \in Nat /\ SampleCount > 0 /\ SizeToAllocate \in Nat
      BY <1>1, <2>2, <3>1, FileFacts DEF Accepted, SizeToAllocate
    <3>3. mapped' > 0
      BY <3>2, <2>2, AlignFacts
    <3> QED  BY <1>2, <1>3, <2>2, <3>1, <3>2, <3>3 DEF Mapping
  <2> QED  BY <1>4, <2>1, <2>2 DEF Allocate
<1>5. CASE Deinterleave
  <2>1. /\ pc = "deinterleave" /\ pc' \in {"trap", "deinterleave"}
        /\ UNCHANGED mapped
        /\ mapped = 0 => data' = data
    BY <1>5 DEF Deinterleave, Trap
  <2>2. DOMAIN data' = DOMAIN data
    BY <1>5 DEF Deinterleave
  <2> QED  BY <1>1, <1>2, <1>3, <2>1, <2>2 DEF Mapping
<1>6. CASE UnloadPreparedData
  <2>1. /\ pc = "unload" /\ pc' = "done" /\ data' = << >>
        /\ mapped = 0 => mapped' = 0
    BY <1>6 DEF UnloadPreparedData
  <2>2. mapped \in Nat
    BY <1>1 DEF TypeOK
  <2>3. mapped' > 0 => mapped > 0
    BY <2>1, <2>2
  <2> QED  BY <1>1, <1>2, <2>1, <2>3 DEF Mapping
<1>7. CASE ~Allocate /\ ~Deinterleave /\ ~UnloadPreparedData
  <2>1. UNCHANGED <<i, mapped, data>>
    BY <1>7, CopySame
  <2>2. pc' = "done" => pc = "done"
    BY <1>7 DEF Next, vars, Reject, Abort, FinishCopy, Measure, Trap,
                AnalyzeSample, NextChannel, NextChannelBy, Report
  <2>3. pc # "done" \/ pc' = "done"
    BY <1>7 DEF Next, vars, Reject, Abort, FinishCopy, Measure, Trap,
                AnalyzeSample, NextChannel, NextChannelBy, Report
  <2> QED  BY <1>1, <1>2, <1>3, <2>1, <2>2, <2>3 DEF Mapping
<1> QED  BY <1>4, <1>5, <1>6, <1>7

\* An iteration that copies a sample.
Copies ==
    /\ pc = "deinterleave" /\ pc' = "deinterleave"
    /\ InSwitch /\ i < parsed_file_info.size
    /\ Ch > 0 /\ mapped > 0
    /\ i' = i + BytesPerSample
    /\ UNCHANGED <<mapped, prepared_data, channel, sample, seen>>
    /\ data' = IF IndexOf(Done, Ch, SampleCount) \in DOMAIN data
               THEN [data EXCEPT ![IndexOf(Done, Ch, SampleCount)] =
                        Sample(Done, WrittenMember(parsed_file_info))]
               ELSE data

\* An iteration that traps.
Traps ==
    /\ pc = "deinterleave" /\ pc' = "trap"
    /\ UNCHANGED <<i, mapped, data, prepared_data, channel, sample, seen>>

LEMMA DeinterleaveSteps ==
    ASSUME TypeOK, Deinterleave
    PROVE  Copies \/ Traps
<1>1. GetDeinterleavedIndex(i, parsed_file_info.channels, parsed_file_info.size,
                            BytesPerSample)
          = IndexOf(Done, Ch, SampleCount)
  BY DEF GetDeinterleavedIndex, IndexOf, Done, Ch, SampleCount
<1>2. \/ Traps
      \/ /\ parsed_file_info.channels > 0 /\ mapped > 0
         /\ data' = IF IndexOf(Done, Ch, SampleCount) \in DOMAIN data
                    THEN [data EXCEPT ![IndexOf(Done, Ch, SampleCount)] =
                             Sample(Done, WrittenMember(parsed_file_info))]
                    ELSE data
         /\ i' = i + BytesPerSample
         /\ UNCHANGED pc
  BY <1>1 DEF Deinterleave, Trap, Traps, Done
<1> QED  BY <1>2 DEF Deinterleave, Copies, InSwitch, Ch

\* The counting of a loop that goes on from i, and what it may read and write.
LEMMA LoopFacts ==
    ASSUME CopyInv, pc = "deinterleave"
    PROVE  /\ BytesPerSample \in Nat /\ BytesPerSample > 0
           /\ parsed_file_info.size \in Nat /\ SampleCount \in Nat
           /\ Done \in Nat /\ i \in Nat /\ i = BytesPerSample * Done
           /\ (i + BytesPerSample) \div BytesPerSample = Done + 1
           /\ i + BytesPerSample = BytesPerSample * (Done + 1)
           /\ i < parsed_file_info.size => Done <= SampleCount
           /\ i < parsed_file_info.size /\ Done = SampleCount => Incomplete
           /\ i < parsed_file_info.size /\ ~Incomplete =>
                 i + BytesPerSample <= parsed_file_info.size
<1>1. TypeOK /\ Copying /\ Accepted
  BY DEF CopyInv, Copying
<1> DEFINE B == BytesPerSample   size == parsed_file_info.size
           n == SampleCount   rest == size % B   d == Done
<1>2. B \in Nat /\ B > 0 /\ size \in Nat /\ n \in Nat /\ i \in Nat
  BY <1>1, FileFacts DEF Accepted, TypeOK
<1>3. d \in Nat /\ i = B * d
  BY <1>1, <1>2, Division DEF Copying, Done
<1>4. rest \in 0..(B - 1) /\ size = B * n + rest
  BY <1>2, Division DEF SampleCount
<1>5. Incomplete <=> rest # 0
  BY DEF Incomplete
<1> HIDE DEF B, size, n, rest, d
<1>6. i + B = B * (d + 1) + 0 /\ B * (d + 1) \in Nat /\ 0 \in 0..(B - 1) /\ d + 1 \in Nat
  BY <1>2, <1>3
<1>7. (i + B) \div B = d + 1
  BY <1>2, <1>6, Quotient
<1>8. ASSUME i < size PROVE d <= n
  <2> SUFFICES ASSUME d >= n + 1 PROVE FALSE
    BY <1>2, <1>3
  <2>1. B * d >= B * (n + 1)
    BY <1>2, <1>3
  <2>2. B * (n + 1) = B * n + B /\ B * n \in Nat /\ B * d \in Nat
    BY <1>2, <1>3
  <2> QED  BY <2>1, <2>2, <1>2, <1>3, <1>4, <1>8
<1>9. ASSUME i < size, d = n PROVE rest # 0
  BY <1>2, <1>3, <1>4, <1>9
<1>10. ASSUME i < size, rest = 0 PROVE i + B <= size
  <2>1. d <= n /\ d # n
    BY <1>8, <1>9, <1>10
  <2>2. d + 1 <= n
    BY <2>1, <1>2, <1>3
  <2>3. B * (d + 1) <= B * n
    BY <2>2, <1>2, <1>3
  <2> QED  BY <2>3, <1>2, <1>4, <1>6, <1>10
<1> QED
  BY <1>2, <1>3, <1>5, <1>6, <1>7, <1>8, <1>9, <1>10 DEF B, size, n, d

LEMMA StepCopying == CopyInv /\ [Next]_vars => Copying'
<1> SUFFICES ASSUME CopyInv, [Next]_vars PROVE Copying'
  OBVIOUS
<1>1. TypeOK /\ Mapping /\ Copying
  BY DEF CopyInv
<1>2. /\ UNCHANGED <<memory, parsed_file_info>>
      /\ SampleCount' = SampleCount /\ Accepted' = Accepted
      /\ BytesPerSample' = BytesPerSample /\ InSwitch' = InSwitch /\ Ch' = Ch
  BY StepSame, SameFile
<1>3. i' = i => Done' = Done
  BY <1>2 DEF Done
<1>4. CASE Allocate
  <2>1. pc = "allocate" /\ i = 0 /\ UNCHANGED i
    BY <1>1, <1>4 DEF Copying, Allocate
  <2>2. pc' \in {"trap", "abort", "deinterleave"}
    BY <1>4 DEF Allocate, Trap, Abort
  <2>3. pc' = "deinterleave" =>
            /\ Accepted
            /\ mapped' = 0 => ~memory \/ SampleCount = 0
    <3>1. BytesPerSample \in Nat
      BY <1>1, FileFacts
    <3> SUFFICES ASSUME pc' = "deinterleave"
                 PROVE  Accepted /\ (mapped' = 0 => ~memory \/ SampleCount = 0)
      OBVIOUS
    <3>2. Accepted /\ BytesPerSample > 0
      BY <3>1, <1>4 DEF Allocate, Trap, Abort, Accepted
    <3>3. SampleCount \in Nat /\ SizeToAllocate = SampleCount * 4
      BY <1>1, <3>2, FileFacts DEF SizeToAllocate
    <3>4. ASSUME memory, SampleCount # 0 PROVE mapped' # 0
      <4>1. SizeToAllocate \in Nat /\ SizeToAllocate > 0
        BY <3>3, <3>4
      <4>2. mapped' = AlignSize(SizeToAllocate)
        BY <4>1, <3>2, <3>4, <1>4 DEF Allocate
      <4> QED  BY <4>1, <4>2, AlignFacts
    <3> QED  BY <3>2, <3>4
  <2>4. Accepted => i' = BytesPerSample * Done'
                    /\ i' < parsed_file_info.size + BytesPerSample
    BY <1>1, <1>3, <2>1 DEF Copying
  <2> QED  BY <1>2, <2>1, <2>2, <2>3, <2>4 DEF Copying, Stages
<1>5. CASE Deinterleave
  <2>1. CASE Traps
    BY <2>1, <1>1, <1>2, <1>3 DEF Traps, Copying, Stages
  <2>2. CASE Copies
    <3>1. /\ BytesPerSample \in Nat /\ parsed_file_info.size \in Nat
          /\ i \in Nat
          /\ (i + BytesPerSample) \div BytesPerSample = Done + 1
          /\ i + BytesPerSample = BytesPerSample * (Done + 1)
      BY <2>2, LoopFacts DEF Copies
    <3>2. Done' = Done + 1
      BY <3>1, <2>2, <1>2 DEF Copies, Done
    <3>3. /\ i' = BytesPerSample * Done'
          /\ i' < parsed_file_info.size + BytesPerSample
      BY <3>1, <3>2, <2>2 DEF Copies
    <3> QED  BY <3>3, <2>2, <1>1, <1>2 DEF Copies, Copying, Stages
  <2> QED  BY <1>1, <1>5, <2>1, <2>2, DeinterleaveSteps
<1>6. CASE UnloadPreparedData
  BY <1>1, <1>2, <1>3, <1>6 DEF UnloadPreparedData, Copying, Stages
<1>7. CASE ~Allocate /\ ~Deinterleave /\ ~UnloadPreparedData
  <2>1. UNCHANGED <<i, mapped, data>>
    BY <1>7, CopySame
  <2>2. \/ pc' = pc
        \/ pc = "allocate" /\ parsed_file_info.result # "SUCCESS" /\ pc' \in {"measure", "abort"}
        \/ pc \in {"deinterleave"} \cup Stages
           /\ pc' \in {"measure", "analyze", "unload", "trap", "abort"}
    BY <1>7 DEF Next, vars, Reject, Abort, FinishCopy, Measure, Trap, Stages,
                AnalyzeSample, NextChannel, NextChannelBy, Report
  <2> QED  BY <1>1, <1>2, <1>3, <2>1, <2>2 DEF Copying, Stages, Accepted
<1> QED  BY <1>4, <1>5, <1>6, <1>7

LEMMA StepReturned == CopyInv /\ [Next]_vars => Returned'
<1> SUFFICES ASSUME CopyInv, [Next]_vars PROVE Returned'
  OBVIOUS
<1>1. TypeOK /\ Copying /\ Returned
  BY DEF CopyInv
<1>2. /\ UNCHANGED <<ndebug, parsed_file_info>>
      /\ SampleCount' = SampleCount /\ Accepted' = Accepted
      /\ InSwitch' = InSwitch /\ Ch' = Ch
  BY StepSame, SameFile
<1>3. CASE Reject
  BY <1>1, <1>2, <1>3
     DEF Reject, Abort, Returned, NotPrepared, Stages
<1>4. CASE Allocate
  BY <1>1, <1>2, <1>4 DEF Allocate, Trap, Abort, Returned, Stages
<1>5. CASE Deinterleave
  <2>1. Copies \/ Traps
    BY <1>1, <1>5, DeinterleaveSteps
  <2> QED  BY <2>1, <1>1, <1>2 DEF Copies, Traps, Returned, Stages
<1>6. CASE FinishCopy
  <2>1. Accepted
    BY <1>1, <1>6 DEF FinishCopy, Copying
  <2> QED  BY <2>1, <1>1, <1>2, <1>6 DEF FinishCopy, Abort, Returned, Stages, Ch, InSwitch
<1>7. CASE Measure
  <2>1. prepared_data.channels \in Nat
    BY <1>1 DEF TypeOK
  <2> QED  BY <2>1, <1>1, <1>2, <1>7 DEF Measure, Trap, SameCopy, Returned, Stages
<1>8. CASE AnalyzeSample
  BY <1>1, <1>2, <1>8 DEF AnalyzeSample, Trap, SameCopy, Returned, Stages
<1>9. CASE NextChannel \/ Report
  BY <1>1, <1>2, <1>9 DEF NextChannel, NextChannelBy, Report, SameCopy, Returned, Stages
<1>10. CASE UnloadPreparedData
  BY <1>1, <1>2, <1>10 DEF UnloadPreparedData, Returned, Stages
<1>11. CASE UNCHANGED vars
  BY <1>1, <1>2, <1>11 DEF vars, Returned
<1> QED  BY <1>3, <1>4, <1>5, <1>6, <1>7, <1>8, <1>9, <1>10, <1>11 DEF Next

LEMMA StepWrites == CopyInv /\ [Next]_vars => WritesInBounds'
<1> SUFFICES ASSUME CopyInv, [Next]_vars PROVE WritesInBounds'
  OBVIOUS
<1>1. TypeOK /\ Mapping /\ WritesInBounds
  BY DEF CopyInv
<1>2. /\ UNCHANGED parsed_file_info
      /\ SampleCount' = SampleCount /\ Incomplete' = Incomplete
  BY StepSame, SameFile
<1>3. CASE data' = data
  BY <1>1, <1>2, <1>3 DEF WritesInBounds
<1>4. CASE \A n \in DOMAIN data' : data'[n] = Zero
  BY <1>4 DEF WritesInBounds
<1>5. CASE Copies
  <2> DEFINE index == IndexOf(Done, Ch, SampleCount)
  <2>1. /\ Done \in Nat /\ SampleCount \in Nat /\ Done <= SampleCount
        /\ Done = SampleCount => Incomplete
    BY <1>5, LoopFacts DEF Copies
  <2>2. SampleCount > 0 /\ Ch \in Nat /\ Ch > 0
    BY <1>1, <1>5, FileFacts DEF Copies, Mapping
  <2>3. index < SampleCount \/ (index = SampleCount /\ Done = SampleCount /\ Ch = 1)
    BY <2>1, <2>2, IndexBounds
  <2>4. DOMAIN data' = DOMAIN data
        /\ \A n \in DOMAIN data : n # index => data'[n] = data[n]
    BY <1>5 DEF Copies
  <2> HIDE DEF index
  <2>5. ASSUME NEW n \in DOMAIN data', data'[n] # Zero
        PROVE  \/ n < SampleCount
               \/ n = SampleCount /\ parsed_file_info.channels = 1 /\ Incomplete
    <3>1. CASE n = index
      BY <3>1, <2>1, <2>3 DEF Ch
    <3>2. CASE n # index
      BY <3>2, <2>4, <2>5, <1>1 DEF WritesInBounds
    <3> QED  BY <3>1, <3>2
  <2> QED  BY <2>5, <1>2 DEF WritesInBounds
<1>6. CASE Allocate
  <2>1. data' = data \/ data' = [n \in 0..(mapped' \div 4 - 1) |-> Zero]
    BY <1>6 DEF Allocate
  <2> QED  BY <2>1, <1>3, <1>4
<1>7. CASE Deinterleave
  <2>1. Copies \/ data' = data
    BY <1>1, <1>7, DeinterleaveSteps DEF Traps
  <2> QED  BY <2>1, <1>3, <1>5
<1>8. CASE UnloadPreparedData
  <2>1. data' = << >>
    BY <1>8 DEF UnloadPreparedData
  <2> QED  BY <2>1, <1>4
<1>9. CASE ~Allocate /\ ~Deinterleave /\ ~UnloadPreparedData
  BY <1>3, <1>9, CopySame
<1> QED  BY <1>6, <1>7, <1>8, <1>9

\* The planes lie in the mapping.
LEMMA PlanesFit ==
    ASSUME TypeOK, Accepted, Ch > 0,
           NEW m, m = AlignSize(SizeToAllocate),
           NEW c, c \in 0..(Ch - 1), NEW t, t \in 0..(Frames - 1)
    PROVE  /\ Frames \in Nat /\ Frames * Ch \in Nat /\ Frames * Ch <= SampleCount
           /\ Frames * Ch >= Ch
           /\ c * Frames + t \in 0..(m \div 4 - 1)
           /\ t * Ch + c \in Nat /\ t * Ch + c < Frames * Ch
<1>1. SampleCount \in Nat /\ Ch \in Nat
  BY FileFacts DEF Accepted
<1>2. Frames \in Nat /\ Frames * Ch <= SampleCount
  <2>1. 0 \in Nat /\ 0 <= SampleCount
    BY <1>1
  <2> QED  BY <2>1, <1>1, SampleCases DEF Frames, Ch
<1>3. c * Frames + t \in Nat /\ c * Frames + t < Frames * Ch
  BY <1>1, <1>2, PlaneEnd
<1>4. t * Ch + c \in Nat /\ t * Ch + c < Frames * Ch
  BY <1>1, <1>2, FrameEnd
<1>5. Frames * Ch \in Nat
  BY <1>1, <1>2
<1>6. SizeToAllocate \in Nat /\ SizeToAllocate = 4 * SampleCount
  BY <1>1 DEF SizeToAllocate
<1>7. m \in Nat /\ m >= 4 * SampleCount
  BY <1>6, AlignFacts
<1>8. m \div 4 \in Nat /\ m \div 4 >= SampleCount
  <2>1. 4 \in Nat /\ 4 > 0
    OBVIOUS
  <2> QED  BY <2>1, <1>1, <1>7, Division, QuotientBelow
<1>9. Frames * Ch >= Ch
  <2>1. Frames >= 1
    BY <1>2
  <2>2. Frames * Ch >= 1 * Ch
    BY <2>1, <1>1, <1>2
  <2> QED  BY <2>2, <1>1
<1> QED  BY <1>1, <1>2, <1>3, <1>4, <1>5, <1>8, <1>9

LEMMA StepLayout == CopyInv /\ [Next]_vars => Layout'
<1> SUFFICES ASSUME CopyInv, [Next]_vars, mapped' > 0, pc' # "done", Ch > 0,
                    NEW c \in 0..(Ch - 1), NEW t \in 0..(Frames - 1)
             PROVE  data'[c * Frames + t] = PlaneValue(c, t)'
  BY StepSame, SameFile DEF Layout
<1>1. TypeOK /\ Mapping /\ Copying /\ Layout
  BY DEF CopyInv
<1>2. /\ UNCHANGED parsed_file_info /\ BytesPerSample' = BytesPerSample
      /\ SampleCount' = SampleCount /\ Frames' = Frames /\ Ch' = Ch
  BY StepSame, SameFile
<1>3. WrittenMember(parsed_file_info)' = WrittenMember(parsed_file_info)
  BY <1>2 DEF WrittenMember
<1>4. /\ PlaneValue(c, t) =
             IF t = 0 /\ c >= 1 /\ Frames * Ch + c - 1 < Done
             THEN Sample(Frames * Ch + c - 1, WrittenMember(parsed_file_info))
             ELSE IF t * Ch + c < Done
                  THEN Sample(t * Ch + c, WrittenMember(parsed_file_info)) ELSE Zero
      /\ PlaneValue(c, t)' =
             IF t = 0 /\ c >= 1 /\ Frames * Ch + c - 1 < Done'
             THEN Sample(Frames * Ch + c - 1, WrittenMember(parsed_file_info))
             ELSE IF t * Ch + c < Done'
                  THEN Sample(t * Ch + c, WrittenMember(parsed_file_info)) ELSE Zero
  BY <1>2, <1>3 DEF PlaneValue, Sample
<1>5. ASSUME UNCHANGED <<i, mapped, data>>, pc # "done"
      PROVE  data'[c * Frames + t] = PlaneValue(c, t)'
  <2>1. Done' = Done
    BY <1>2, <1>5 DEF Done
  <2>2. data[c * Frames + t] = PlaneValue(c, t)
    BY <1>1, <1>5 DEF Layout
  <2> QED  BY <2>1, <2>2, <1>4, <1>5
<1>6. CASE Allocate
  <2>1. mapped = 0 /\ i = 0 /\ i' = 0
    BY <1>1, <1>6 DEF Allocate, Copying
  <2>2. /\ BytesPerSample # 0 /\ parsed_file_info.result = "SUCCESS"
        /\ mapped' = AlignSize(SizeToAllocate)
        /\ data' = [n \in 0..(mapped' \div 4 - 1) |-> Zero]
    BY <1>6, <2>1 DEF Allocate
  <2>3. Accepted /\ BytesPerSample \in Nat
    BY <1>1, <2>2, FileFacts DEF Accepted
  <2>4. Done' = 0
    <3>1. /\ 0 = BytesPerSample * 0 + 0 /\ 0 \in 0..(BytesPerSample - 1) /\ 0 \in Nat
          /\ BytesPerSample > 0
      BY <2>3 DEF Accepted
    <3>2. 0 \div BytesPerSample = 0
      BY <2>3, <3>1, Quotient
    <3> QED  BY <3>2, <2>1, <1>2 DEF Done
  <2>5. /\ c * Frames + t \in 0..(mapped' \div 4 - 1)
        /\ Frames * Ch \in Nat /\ t * Ch + c \in Nat
    BY <1>1, <2>2, <2>3, PlanesFit
  <2> QED  BY <2>2, <2>4, <2>5, <1>4
<1>7. CASE Deinterleave
  <2>1. CASE Traps
    BY <2>1, <1>5 DEF Traps
  <2>2. CASE Copies
    <3>1. /\ Done \in Nat /\ SampleCount \in Nat /\ Done <= SampleCount
          /\ (i + BytesPerSample) \div BytesPerSample = Done + 1
      BY <2>2, LoopFacts DEF Copies
    <3>2. Done' = Done + 1
      BY <3>1, <2>2, <1>2 DEF Copies, Done
    <3>3. /\ Accepted /\ Ch \in Nat /\ mapped = AlignSize(SizeToAllocate)
          /\ DOMAIN data = 0..(mapped \div 4 - 1)
      BY <1>1, <2>2, FileFacts DEF Copies, Mapping
    <3>4. /\ c * Frames + t \in DOMAIN data
          /\ Frames * Ch \in Nat
          /\ t * Ch + c \in Nat /\ t * Ch + c < Frames * Ch
      BY <1>1, <3>3, PlanesFit
    <3>5. IndexOf(Done, Ch, SampleCount) = c * Frames + t <=>
              \/ Done = t * Ch + c
              \/ t = 0 /\ c >= 1 /\ Done = Frames * Ch + c - 1
      <4>1. Frames = SampleCount \div Ch
        BY DEF Frames, Ch
      <4>2. /\ c \in 0..(Ch - 1) /\ t \in 0..((SampleCount \div Ch) - 1)
            /\ Ch > 0
        BY <4>1
      <4>3. Hits(Done, Ch, SampleCount, c, t)
        BY <3>1, <3>3, <4>2, PlaneHits, Zenon
      <4> QED  BY <4>1, <4>3 DEF Hits
    <3>6. data[c * Frames + t] = PlaneValue(c, t)
      BY <1>1, <2>2 DEF Copies, Layout
    <3>7. data'[c * Frames + t] =
              IF IndexOf(Done, Ch, SampleCount) = c * Frames + t
              THEN Sample(Done, WrittenMember(parsed_file_info))
              ELSE data[c * Frames + t]
      <4> DEFINE place == c * Frames + t  index == IndexOf(Done, Ch, SampleCount)
      <4>1. place \in DOMAIN data /\ index \in DOMAIN data =>
                data'[place] = IF index = place
                               THEN Sample(Done, WrittenMember(parsed_file_info))
                               ELSE data[place]
        BY <2>2 DEF Copies
      <4>2. index \notin DOMAIN data => data'[place] = data[place]
        BY <2>2 DEF Copies
      <4> HIDE DEF place, index
      <4>3. data'[place] = IF index = place
                           THEN Sample(Done, WrittenMember(parsed_file_info))
                           ELSE data[place]
        BY <3>4, <4>1, <4>2 DEF place
      <4> QED  BY <4>3 DEF place, index
    <3>8. CASE Done = t * Ch + c
      <4>1. ~(t = 0 /\ c >= 1 /\ Frames * Ch + c - 1 < Done + 1)
        BY <3>4, <3>8
      <4> QED  BY <4>1, <3>1, <3>2, <3>4, <3>5, <3>7, <3>8, <1>4
    <3>9. CASE t = 0 /\ c >= 1 /\ Done = Frames * Ch + c - 1
      <4>1. Frames * Ch + c - 1 < Done + 1
        BY <3>4, <3>9
      <4> QED  BY <4>1, <3>1, <3>2, <3>4, <3>5, <3>7, <3>9, <1>4
    <3>10. CASE ~(Done = t * Ch + c) /\ ~(t = 0 /\ c >= 1 /\ Done = Frames * Ch + c - 1)
      <4>1. t * Ch + c < Done + 1 <=> t * Ch + c < Done
        BY <3>1, <3>4, <3>10
      <4>2. t = 0 /\ c >= 1 =>
                (Frames * Ch + c - 1 < Done + 1 <=> Frames * Ch + c - 1 < Done)
        BY <3>1, <3>4, <3>10
      <4>3. data'[c * Frames + t] = PlaneValue(c, t)
        BY <3>5, <3>6, <3>7, <3>10
      <4> QED  BY <4>1, <4>2, <4>3, <3>2, <1>4
    <3> QED  BY <3>8, <3>9, <3>10
  <2> QED  BY <1>1, <1>7, <2>1, <2>2, DeinterleaveSteps
<1>8. CASE UnloadPreparedData
  BY <1>8 DEF UnloadPreparedData
<1>9. CASE ~Allocate /\ ~Deinterleave /\ ~UnloadPreparedData
  <2>1. pc # "done"
    BY <1>9 DEF Next, vars, Reject, Abort, FinishCopy, Measure, Trap,
                AnalyzeSample, NextChannel, NextChannelBy, Report
  <2> QED  BY <2>1, <1>5, <1>9, CopySame
<1> QED  BY <1>6, <1>7, <1>8, <1>9

LEMMA StepReading == CopyInv /\ [Next]_vars => Reading'
<1> SUFFICES ASSUME CopyInv, [Next]_vars PROVE Reading'
  OBVIOUS
<1>1. TypeOK /\ Returned /\ Reading
  BY DEF CopyInv
<1>2. channel \in Nat /\ sample \in Nat /\ prepared_data.channels \in Nat
      /\ prepared_data.size \in Nat
  BY <1>1 DEF TypeOK
<1>3. UNCHANGED prepared_data => SampleCountChannel' = SampleCountChannel
  BY DEF SampleCountChannel
<1>4. UNCHANGED <<data, prepared_data>> => \A n : Read(n)' = Read(n)
  BY DEF Read
<1>5. prepared_data.channels > 0 => SampleCountChannel \in Nat
  BY <1>2, Division DEF SampleCountChannel
<1>6. CASE Reject \/ Allocate \/ Deinterleave \/ FinishCopy
  <2>1. /\ pc \in {"allocate", "deinterleave"}
        /\ pc' \notin {"analyze", "unload"}
        /\ UNCHANGED <<channel, sample, seen>>
    BY <1>6 DEF Reject, Abort, Allocate, Trap, Deinterleave, FinishCopy
  <2> QED  BY <2>1, <1>1 DEF Reading
<1>7. CASE Measure
  <2>1. /\ channel = 0 /\ sample = 0 /\ seen = {}
        /\ UNCHANGED <<channel, sample, seen, data, prepared_data>>
        /\ pc' \in {"analyze", "trap"}
        /\ pc' = "analyze" => prepared_data.channels # 0
    BY <1>1, <1>7 DEF Measure, Trap, SameCopy, Reading
  <2>2. CASE pc' = "trap"
    BY <2>1, <2>2 DEF Reading
  <2>3. CASE pc' = "analyze"
    <3>1. prepared_data.channels > 0 /\ SampleCountChannel \in Nat
      BY <2>1, <2>3, <1>2, <1>5
    <3>2. 0 * SampleCountChannel + 0 - 1 = -1
      BY <3>1
    <3>3. 0..(channel * SampleCountChannel + sample - 1) = {}
      BY <2>1, <3>2
    <3> QED  BY <2>1, <2>3, <3>1, <3>3, <1>2, <1>3 DEF Reading
  <2> QED  BY <2>1, <2>2, <2>3
<1>8. CASE AnalyzeSample
  <2> DEFINE index == sample + channel * SampleCountChannel
             last == channel * SampleCountChannel + sample - 1
  <2>1. /\ pc = "analyze" /\ pc' \in {"analyze", "trap"}
        /\ channel < prepared_data.channels /\ sample < SampleCountChannel
        /\ UNCHANGED <<channel, data, prepared_data>>
        /\ pc' = "analyze" => /\ index \in DOMAIN data /\ sample' = sample + 1
                              /\ seen' = seen \cup {Read(index)}
    BY <1>8 DEF AnalyzeSample, SameCopy, Trap, Read
  <2>2. CASE pc' = "trap"
    BY <2>1, <2>2 DEF Reading
  <2>3. CASE pc' = "analyze"
    <3>1. SampleCountChannel \in Nat
      BY <2>1, <1>2, <1>5
    <3>2. channel * SampleCountChannel \in Nat
      BY <3>1, <1>2
    <3>3. index = last + 1 /\ last + 1 \in Nat /\ last \in Int
          /\ channel * SampleCountChannel + (sample + 1) - 1 = last + 1
      BY <3>2, <1>2
    <3>4. 0..last \subseteq DOMAIN data /\ seen = {Read(n) : n \in 0..last}
      BY <2>1, <1>1 DEF Reading
    <3> HIDE DEF index, last
    <3>5. 0..(last + 1) = (0..last) \cup {index}
      BY <3>3
    <3>6. 0..(last + 1) \subseteq DOMAIN data
          /\ seen' = {Read(n) : n \in 0..(last + 1)}
      BY <2>1, <2>3, <3>4, <3>5
    <3>7. channel' * SampleCountChannel' + sample' - 1 = last + 1
      BY <2>1, <2>3, <3>3, <1>3
    <3>8. /\ channel' <= prepared_data'.channels /\ sample' <= SampleCountChannel'
          /\ channel' # prepared_data'.channels
      BY <2>1, <2>3, <3>1, <1>2, <1>3
    <3> QED  BY <2>1, <2>3, <3>6, <3>7, <3>8, <1>4 DEF Reading
  <2> QED  BY <2>1, <2>2, <2>3
<1>9. CASE NextChannel
  <2>1. /\ pc = "analyze" /\ pc' = "analyze"
        /\ channel < prepared_data.channels /\ sample >= SampleCountChannel
        /\ channel' = channel + 1 /\ sample' = 0
        /\ UNCHANGED <<data, prepared_data, seen>>
    BY <1>9 DEF NextChannel, NextChannelBy, SameCopy
  <2>2. SampleCountChannel \in Nat
    BY <2>1, <1>2, <1>5
  <2>3. sample = SampleCountChannel
    BY <2>1, <2>2, <1>1, <1>2 DEF Reading
  <2>4. (channel + 1) * SampleCountChannel + 0 - 1
            = channel * SampleCountChannel + sample - 1
    BY <2>2, <2>3, <1>2
  <2>5. channel' * SampleCountChannel' + sample' - 1
            = channel * SampleCountChannel + sample - 1
    BY <2>1, <2>4, <1>3
  <2>6. channel' <= prepared_data'.channels /\ sample' <= SampleCountChannel'
    BY <2>1, <2>2, <1>2, <1>3
  <2> QED  BY <2>1, <2>5, <2>6, <1>1, <1>4 DEF Reading
<1>10. CASE Report
  <2>1. /\ pc = "analyze" /\ pc' = "unload" /\ channel >= prepared_data.channels
        /\ UNCHANGED <<channel, sample, seen, data, prepared_data>>
    BY <1>10 DEF Report, SameCopy
  <2>2. channel = prepared_data.channels
    BY <2>1, <1>1, <1>2 DEF Reading
  <2> QED  BY <2>1, <2>2, <1>1, <1>3, <1>4 DEF Reading
<1>11. CASE UnloadPreparedData
  BY <1>11 DEF UnloadPreparedData, Reading
<1>12. CASE UNCHANGED vars
  BY <1>1, <1>3, <1>4, <1>12 DEF vars, Reading
<1> QED  BY <1>6, <1>7, <1>8, <1>9, <1>10, <1>11, <1>12 DEF Next

-----------------------------------------------------------------------------
(* The whole copy, and what is read of it.                                 *)

\* What holds of the counts when the loop has ended: every sample is copied.
LEMMA CopyDone ==
    ASSUME CopyInv, pc \in Stages, Accepted, InSwitch
    PROVE  /\ Done = CopiedSamples /\ Done \in Nat
           /\ SampleCount \in Nat /\ SampleCount <= Done
<1>1. TypeOK /\ Copying /\ Returned
  BY DEF CopyInv
<1> DEFINE B == BytesPerSample   size == parsed_file_info.size
           n == SampleCount   d == Done
<1>2. B \in Nat /\ B > 0 /\ size \in Nat /\ n \in Nat /\ i \in Nat
  BY <1>1, FileFacts DEF Accepted, TypeOK
<1>3. d \in Nat /\ i = B * d /\ i < size + B /\ i >= size
  BY <1>1, <1>2, Division DEF Copying, Done, Returned, Accepted
<1>4. size % B \in 0..(B - 1) /\ size = B * n + (size % B)
  BY <1>2, Division DEF SampleCount
<1>5. CopiedSamples = (size + B - 1) \div B
  BY DEF CopiedSamples
<1>6. Done = d /\ SampleCount = n
  OBVIOUS
<1> HIDE DEF B, size, n, d
<1>7. (size + B - 1) \div B = d
  <2>1. /\ size + B - 1 - i \in 0..(B - 1) /\ B * d \in Nat
        /\ size + B - 1 = B * d + (size + B - 1 - i)
    BY <1>2, <1>3
  <2> QED  BY <2>1, <1>2, <1>3, Quotient
<1>8. n <= d
  <2> SUFFICES ASSUME n >= d + 1 PROVE FALSE
    BY <1>2, <1>3
  <2>1. B * n >= B * (d + 1)
    BY <1>2, <1>3
  <2>2. B * (d + 1) = B * d + B /\ B * d \in Nat /\ B * n \in Nat
    BY <1>2, <1>3
  <2>3. size >= B * n
    BY <2>2, <1>2, <1>4
  <2> QED  BY <2>1, <2>2, <2>3, <1>2, <1>3
<1> QED  BY <1>2, <1>3, <1>5, <1>6, <1>7, <1>8

\* While the planes are read, they are those of the file.
LEMMA ReadFacts ==
    ASSUME CopyInv, pc \in {"analyze", "unload"}
    PROVE  /\ Accepted /\ Ch \in Nat /\ Ch > 0 /\ Frames \in Nat
           /\ SampleCountChannel = Frames /\ prepared_data.channels = Ch
           /\ ReadMember(prepared_data) = ReadMember(parsed_file_info)
           /\ ~InSwitch => ndebug
<1>1. TypeOK /\ Returned
  BY DEF CopyInv
<1>2. prepared_data.channels > 0
  BY <1>1 DEF Returned
<1>3. /\ Accepted
      /\ prepared_data = [size |-> SampleCount, channels |-> Ch,
                          data_type |-> parsed_file_info.data_type,
                          result |-> "SUCCESS"]
      /\ ~InSwitch => ndebug
  BY <1>1, <1>2 DEF Returned, Stages
<1>4. Ch \in Nat /\ SampleCount \in Nat
  BY <1>1, <1>3, FileFacts DEF Accepted
<1>5. SampleCountChannel = Frames
  BY <1>3 DEF SampleCountChannel, Frames, Ch
<1>6. Frames \in Nat
  BY <1>2, <1>3, <1>4, Division DEF Frames, Ch
<1> QED  BY <1>2, <1>3, <1>4, <1>5, <1>6 DEF ReadMember

\* The planes of a copy that is there, when it is complete.
LEMMA PlaneFacts ==
    ASSUME CopyInv, pc \in Stages, Accepted, mapped > 0, Ch > 0,
           NEW c, c \in 0..(Ch - 1), NEW t, t \in 0..(Frames - 1)
    PROVE  /\ data[c * Frames + t] = PlaneValue(c, t)
           /\ Frames \in Nat /\ Frames * Ch \in Nat /\ Frames * Ch >= Ch
           /\ t * Ch + c \in Nat /\ t * Ch + c < Frames * Ch
           /\ Frames * Ch <= SampleCount
<1>1. TypeOK /\ Layout
  BY DEF CopyInv
<1>2. data[c * Frames + t] = PlaneValue(c, t)
  BY <1>1 DEF Layout, Stages
<1>3. /\ Frames \in Nat /\ Frames * Ch \in Nat /\ Frames * Ch <= SampleCount
      /\ Frames * Ch >= Ch
      /\ t * Ch + c \in Nat /\ t * Ch + c < Frames * Ch
  <2> DEFINE m == AlignSize(SizeToAllocate)
  <2>1. m = AlignSize(SizeToAllocate)
    OBVIOUS
  <2> HIDE DEF m
  <2> QED  BY <1>1, <2>1, PlanesFit
<1> QED  BY <1>2, <1>3

\* The only depths that are written and read as the same member are those of
\* the comments.
LEMMA MemberFacts ==
    ASSUME NEW p, p \in ParsedFileInfo, p.bits_per_sample \in Depths
    PROVE  ReadMember(p) = WrittenMember(p) <=> CommentedFormat(p)
  BY DEF ParsedFileInfo, DataTypes, Depths, ReadMember, WrittenMember, CommentedFormat

LEMMA StepReadAsWritten == CopyInv /\ [Next]_vars => ReadAsWritten'
<1> SUFFICES ASSUME CopyInv, [Next]_vars PROVE ReadAsWritten'
  OBVIOUS
<1>1. TypeOK /\ Mapping /\ Copying /\ ReadAsWritten
  BY DEF CopyInv
<1>2. UNCHANGED <<ndebug, parsed_file_info>>
  BY StepSame
<1>3. CommentedFormat(parsed_file_info)' = CommentedFormat(parsed_file_info)
  BY <1>2 DEF CommentedFormat
<1>4. CASE seen' = seen
  BY <1>1, <1>2, <1>3, <1>4 DEF ReadAsWritten
<1>5. CASE seen' # seen
  <2> DEFINE index == channel * Frames + sample
             element == data[index]
  <2>1. AnalyzeSample
    BY <1>5 DEF Next, vars, Reject, Allocate, Deinterleave, FinishCopy, Measure,
                NextChannel, NextChannelBy, Report, UnloadPreparedData
  <2>2. /\ pc = "analyze" /\ channel < prepared_data.channels
        /\ sample < SampleCountChannel
        /\ sample + channel * SampleCountChannel \in DOMAIN data
        /\ seen' = seen \cup {Read(sample + channel * SampleCountChannel)}
    BY <1>5, <2>1 DEF AnalyzeSample, Read
  <2>3. /\ Accepted /\ Ch \in Nat /\ Ch > 0 /\ Frames \in Nat
        /\ SampleCountChannel = Frames /\ prepared_data.channels = Ch
        /\ ReadMember(prepared_data) = ReadMember(parsed_file_info)
        /\ ~InSwitch => ndebug
    BY <2>2, ReadFacts
  <2>4. channel \in Nat /\ sample \in Nat
    BY <1>1 DEF TypeOK
  <2>5. channel \in 0..(Ch - 1) /\ sample \in 0..(Frames - 1)
    BY <2>2, <2>3, <2>4
  <2>6. sample + channel * SampleCountChannel = index
    BY <2>3, <2>4
  <2>7. mapped > 0
    <3>1. mapped \in Nat /\ (mapped = 0 => data = << >>)
      BY <1>1 DEF TypeOK, Mapping
    <3>2. data # << >>
      BY <2>2
    <3> QED  BY <3>1, <3>2
  <2>8. /\ element = PlaneValue(channel, sample)
        /\ Frames * Ch \in Nat /\ Frames * Ch >= Ch
        /\ sample * Ch + channel \in Nat /\ sample * Ch + channel < Frames * Ch
        /\ Frames * Ch <= SampleCount
    BY <2>2, <2>3, <2>5, <2>7, PlaneFacts DEF Stages
  <2>9. seen' = seen \cup {[element |-> element, as |-> ReadMember(parsed_file_info)]}
    BY <2>2, <2>3, <2>6 DEF Read
  <2> HIDE DEF index, element
  <2>10. CASE InSwitch
    <3>1. SampleCount <= Done /\ Done \in Nat /\ SampleCount \in Nat
      BY <2>2, <2>3, <2>10, CopyDone DEF Stages
    <3>2. \E k \in Nat : element = Sample(k, WrittenMember(parsed_file_info))
      <4>1. sample * Ch + channel < Done
        BY <2>8, <3>1, <2>3
      <4>2. channel >= 1 => Frames * Ch + channel - 1 \in Nat
        BY <2>4, <2>8
      <4> QED  BY <4>1, <4>2, <2>8 DEF PlaneValue
    <3>3. element # Zero /\ element.member = WrittenMember(parsed_file_info)
      BY <3>2 DEF Sample, Zero
    <3>4. ReadMember(parsed_file_info) = WrittenMember(parsed_file_info)
              <=> CommentedFormat(parsed_file_info)
      BY <1>1, <2>10, FileFacts, MemberFacts DEF InSwitch
    <3> QED  BY <1>1, <1>2, <1>3, <2>9, <3>3, <3>4 DEF ReadAsWritten
  <2>11. CASE ~InSwitch
    <3>1. i = 0
      BY <1>1, <2>11 DEF TypeOK, Copying
    <3>2. Done = 0
      <4>1. BytesPerSample \in Nat /\ BytesPerSample > 0
        BY <1>1, <2>3, FileFacts DEF Accepted
      <4>2. /\ 0 = BytesPerSample * 0 + 0 /\ 0 \in 0..(BytesPerSample - 1)
            /\ 0 \in Nat
        BY <4>1
      <4> QED  BY <3>1, <4>1, <4>2, Quotient DEF Done
    <3>3. element = Zero
      <4>1. channel >= 1 => Frames * Ch + channel - 1 >= 0
        BY <2>4, <2>8
      <4> QED  BY <3>2, <2>8, <4>1, <2>4 DEF PlaneValue
    <3> QED  BY <1>1, <1>2, <1>3, <2>3, <2>9, <2>11, <3>3 DEF ReadAsWritten, InSwitch
  <2> QED  BY <2>10, <2>11
<1> QED  BY <1>4, <1>5

\* A file whose samples are copied has been accepted, and its copy is there.
LEMMA SampleFacts ==
    ASSUME CopyInv, pc \in Stages, HasSamples
    PROVE  Accepted /\ InSwitch /\ Ch \in Nat /\ Ch > 0 /\ mapped > 0
<1>1. TypeOK /\ Copying /\ Returned
  BY DEF CopyInv
<1>2. parsed_file_info.size \in Nat /\ Ch \in Nat /\ i \in Nat
  BY <1>1, FileFacts DEF TypeOK
<1>3. InSwitch /\ parsed_file_info.size > 0
  BY DEF HasSamples, InSwitch
<1>4. parsed_file_info.result = "SUCCESS"
  BY <1>1, <1>3, InfosAssumption DEF TypeOK
<1>5. Accepted /\ i >= parsed_file_info.size
  BY <1>1, <1>3, <1>4 DEF Returned
<1>6. i > 0
  BY <1>2, <1>3, <1>5
<1> QED  BY <1>1, <1>2, <1>3, <1>5, <1>6 DEF Copying, Stages

\* The sample in a place of a complete copy.
PlaneSample(c, t) ==
    IF t = 0 /\ c >= 1 /\ Frames * Ch + c - 1 < CopiedSamples
    THEN Frames * Ch + c - 1 ELSE t * Ch + c

LEMMA CompletePlanes ==
    ASSUME CopyInv, pc \in Stages, HasSamples,
           NEW c, c \in 0..(Ch - 1), NEW t, t \in 0..(Frames - 1)
    PROVE  data[c * Frames + t].sample = PlaneSample(c, t)
<1>1. Accepted /\ InSwitch /\ Ch \in Nat /\ Ch > 0 /\ mapped > 0
  BY SampleFacts
<1>2. Done = CopiedSamples /\ Done \in Nat /\ SampleCount \in Nat /\ SampleCount <= Done
  BY <1>1, CopyDone
<1>3. /\ data[c * Frames + t] = PlaneValue(c, t)
      /\ Frames * Ch \in Nat
      /\ t * Ch + c \in Nat /\ t * Ch + c < Frames * Ch
      /\ Frames * Ch <= SampleCount
  BY <1>1, PlaneFacts
<1>4. t * Ch + c < Done
  BY <1>2, <1>3
<1> QED  BY <1>2, <1>3, <1>4 DEF PlaneValue, PlaneSample, Sample

\* The samples that have a place, of all the samples of a file with f frames.
Kept(f, ch, all, k) ==
    /\ k \in 0..(all - 1)
    /\ ~(k \in 1..(all - f * ch) /\ k < ch)
    /\ ~(k >= f * ch + ch - 1)

SampleAt(f, ch, all, c, t) ==
    IF t = 0 /\ c >= 1 /\ f * ch + c - 1 < all
    THEN f * ch + c - 1 ELSE t * ch + c

HasPlace(f, ch, all, k) ==
    \E c \in 0..(ch - 1), t \in 0..(f - 1) : k = SampleAt(f, ch, all, c, t)

LEMMA WholeFrames ==
    ASSUME NEW f, f \in Nat, f > 0, NEW ch, ch \in Nat
    PROVE  f * ch \in Nat /\ f * ch >= ch
<1>1. f * ch >= 1 * ch
  OBVIOUS
<1> QED  BY <1>1

LEMMA PlacesKeep ==
    ASSUME NEW f, f \in Nat, f > 0, NEW ch, ch \in Nat, ch > 0,
           NEW all, all \in Nat, f * ch <= all,
           NEW c, c \in 0..(ch - 1), NEW t, t \in 0..(f - 1)
    PROVE  Kept(f, ch, all, SampleAt(f, ch, all, c, t))
<1> DEFINE whole == f * ch   k == t * ch + c
<1>1. whole \in Nat /\ whole >= ch /\ whole <= all
  BY WholeFrames
<1>2. k \in Nat /\ k < whole
  BY FrameEnd
<1>3. t = 0 => k = c
  OBVIOUS
<1>4. k < ch => t = 0
  <2> SUFFICES ASSUME t >= 1 PROVE k >= ch
    OBVIOUS
  <2>1. t * ch >= 1 * ch
    OBVIOUS
  <2> QED  BY <2>1
<1>5. SampleAt(f, ch, all, c, t) =
          IF t = 0 /\ c >= 1 /\ whole + c - 1 < all THEN whole + c - 1 ELSE k
  BY DEF SampleAt
<1>6. Kept(f, ch, all, SampleAt(f, ch, all, c, t)) <=>
          /\ SampleAt(f, ch, all, c, t) \in 0..(all - 1)
          /\ ~(SampleAt(f, ch, all, c, t) \in 1..(all - whole)
                  /\ SampleAt(f, ch, all, c, t) < ch)
          /\ ~(SampleAt(f, ch, all, c, t) >= whole + ch - 1)
  BY DEF Kept
<1> HIDE DEF whole, k
<1>7. CASE t = 0 /\ c >= 1 /\ whole + c - 1 < all
  <2>1. SampleAt(f, ch, all, c, t) = whole + c - 1
    BY <1>5, <1>7
  <2> QED  BY <2>1, <1>1, <1>6, <1>7
<1>8. CASE ~(t = 0 /\ c >= 1 /\ whole + c - 1 < all)
  <2>1. SampleAt(f, ch, all, c, t) = k
    BY <1>5, <1>8
  <2>2. ~(k \in 1..(all - whole) /\ k < ch)
    <3> SUFFICES ASSUME k \in 1..(all - whole), k < ch PROVE FALSE
      OBVIOUS
    <3>1. t = 0 /\ k = c
      BY <1>3, <1>4
    <3> QED  BY <3>1, <1>1, <1>8
  <2> QED  BY <2>1, <2>2, <1>1, <1>2, <1>6
<1> QED  BY <1>7, <1>8

LEMMA KeptHasPlace ==
    ASSUME NEW f, f \in Nat, f > 0, NEW ch, ch \in Nat, ch > 0,
           NEW all, all \in Nat, f * ch <= all,
           NEW k, Kept(f, ch, all, k)
    PROVE  HasPlace(f, ch, all, k)
<1> DEFINE whole == f * ch
<1>1. whole \in Nat /\ whole >= ch /\ whole <= all
  BY WholeFrames
<1>2. k \in Nat /\ k < all /\ k < whole + ch - 1
      /\ ~(k \in 1..(all - whole) /\ k < ch)
  BY <1>1 DEF Kept
<1>3. \A c, t : SampleAt(f, ch, all, c, t) =
          IF t = 0 /\ c >= 1 /\ whole + c - 1 < all THEN whole + c - 1 ELSE t * ch + c
  BY DEF SampleAt
<1>4. CASE k < whole
  <2> DEFINE t == k \div ch   c == k % ch
  <2>1. t \in Nat /\ c \in 0..(ch - 1) /\ k = ch * t + c
    BY <1>2, Division
  <2>2. t < f
    <3>1. k < ch * f
      BY <1>4
    <3> QED  BY <3>1, <1>2, QuotientBelow
  <2> HIDE DEF t, c
  <2>3. k = t * ch + c /\ t \in 0..(f - 1)
    BY <2>1, <2>2
  <2>4. ~(t = 0 /\ c >= 1 /\ whole + c - 1 < all)
    <3> SUFFICES ASSUME t = 0, c >= 1, whole + c - 1 < all PROVE FALSE
      OBVIOUS
    <3>1. k = c
      BY <2>1
    <3> HIDE DEF whole
    <3> QED  BY <3>1, <2>1, <1>1, <1>2
  <2>5. k = SampleAt(f, ch, all, c, t)
    BY <2>3, <2>4, <1>3
  <2> QED  BY <2>1, <2>3, <2>5 DEF HasPlace
<1>5. CASE k >= whole
  <2> DEFINE c == k - whole + 1
  <2> HIDE DEF whole
  <2>1. c \in 0..(ch - 1) /\ c >= 1 /\ whole + c - 1 = k /\ whole + c - 1 < all
    BY <1>1, <1>2, <1>5
  <2>2. 0 \in 0..(f - 1)
    OBVIOUS
  <2> HIDE DEF c
  <2>3. k = SampleAt(f, ch, all, c, 0)
    BY <2>1, <1>3
  <2> QED  BY <2>1, <2>2, <2>3 DEF HasPlace
<1> QED  BY <1>1, <1>2, <1>4, <1>5

\* The elements the level is taken over, in terms of planes.
InPlane(ch, f, n) == \E c \in 0..(ch - 1), t \in 0..(f - 1) : n = c * f + t

LEMMA Planes ==
    ASSUME NEW ch, ch \in Nat, NEW f, f \in Nat, f > 0
    PROVE  /\ \A n \in 0..(ch * f - 1) : InPlane(ch, f, n)
           /\ \A c \in 0..(ch - 1), t \in 0..(f - 1) : c * f + t \in 0..(ch * f - 1)
<1>1. ch * f \in Nat /\ ch * f = f * ch
  OBVIOUS
<1>2. ASSUME NEW n \in 0..(ch * f - 1) PROVE InPlane(ch, f, n)
  <2> DEFINE c == n \div f   t == n % f
  <2>0. n \in Nat /\ n < f * ch
    BY <1>1
  <2>1. c \in Nat /\ t \in 0..(f - 1) /\ n = f * c + t
    BY <2>0, Division
  <2>2. c < ch
    BY <2>0, QuotientBelow
  <2> HIDE DEF c, t
  <2>3. n = c * f + t /\ c \in 0..(ch - 1)
    BY <2>1, <2>2
  <2> QED  BY <2>1, <2>3 DEF InPlane
<1>3. ASSUME NEW c \in 0..(ch - 1), NEW t \in 0..(f - 1)
      PROVE  c * f + t \in 0..(ch * f - 1)
  <2>1. c * f + t \in Nat /\ c * f + t < f * ch
    BY PlaneEnd
  <2> QED  BY <2>1, <1>1
<1> QED  BY <1>2, <1>3

LEMMA StepLevel == CopyInv /\ [Next]_vars => LevelCoversFile'
<1> SUFFICES ASSUME CopyInv, [Next]_vars PROVE LevelCoversFile'
  OBVIOUS
<1>1. TypeOK /\ Reading /\ LevelCoversFile
  BY DEF CopyInv
<1>2. /\ UNCHANGED parsed_file_info
      /\ BytesPerSample' = BytesPerSample /\ SampleCount' = SampleCount
      /\ CopiedSamples' = CopiedSamples /\ Frames' = Frames
      /\ Ragged' = Ragged /\ HasSamples' = HasSamples
  BY StepSame, SameFile
<1>3. \A k : Lost(k)' = Lost(k)
  BY <1>2 DEF Lost
<1>4. CASE ~Report
  <2>1. pc' \in {"unload", "done"} => pc \in {"unload", "done"} /\ seen' = seen
    BY <1>4 DEF Next, vars, Reject, Abort, Allocate, Trap, Deinterleave, FinishCopy,
                Measure, AnalyzeSample, NextChannel, NextChannelBy,
                UnloadPreparedData
  <2> QED  BY <2>1, <1>1, <1>2, <1>3 DEF LevelCoversFile
<1>5. CASE Report
  <2>1. pc = "analyze" /\ channel >= prepared_data.channels /\ seen' = seen
    BY <1>5 DEF Report
  <2>2. /\ Accepted /\ Ch \in Nat /\ Ch > 0 /\ Frames \in Nat
        /\ SampleCountChannel = Frames /\ prepared_data.channels = Ch
    BY <2>1, ReadFacts
  <2>3. channel = Ch /\ sample = 0
    BY <2>1, <2>2, <1>1 DEF TypeOK, Reading
  <2>4. seen = {Read(n) : n \in 0..(Ch * Frames + 0 - 1)}
    BY <2>1, <2>2, <2>3, <1>1 DEF Reading
  <2>5. Ch * Frames \in Nat
    BY <2>2
  <2>6. seen = {Read(n) : n \in 0..(Ch * Frames - 1)}
    BY <2>4, <2>5
  <2> SUFFICES ASSUME HasSamples
               PROVE  {e.element.sample : e \in seen} =
                          {k \in 0..(CopiedSamples - 1) : ~Lost(k)}
    BY <1>2, <1>3, <2>1 DEF LevelCoversFile
  <2>7. /\ Accepted /\ InSwitch /\ mapped > 0
    BY <2>1, SampleFacts DEF Stages
  <2>8. CASE Frames = 0
    <3>1. 0..(Ch * Frames - 1) = {}
      BY <2>2, <2>8
    <3>2. seen = {}
      BY <3>1, <2>6
    <3> QED  BY <3>2, <2>8 DEF Lost
  <2>9. CASE Frames # 0
    <3>1. Frames > 0
      BY <2>2, <2>9
    <3>2. /\ CopiedSamples \in Nat /\ Frames * Ch <= CopiedSamples
      <4>1. /\ Done = CopiedSamples /\ Done \in Nat
            /\ SampleCount \in Nat /\ SampleCount <= Done
        BY <2>1, <2>7, CopyDone DEF Stages
      <4>2. Frames * Ch <= SampleCount
        <5>1. 0 \in 0..(Ch - 1) /\ 0 \in 0..(Frames - 1)
          BY <2>2, <3>1
        <5> QED  BY <5>1, <2>1, <2>2, <2>7, PlaneFacts DEF Stages
      <4> QED  BY <4>1, <4>2, <2>2
    <3>3. \A k : (k \in 0..(CopiedSamples - 1) /\ ~Lost(k))
                     <=> Kept(Frames, Ch, CopiedSamples, k)
      BY <2>2, <2>9 DEF Lost, Kept, Ragged, Ch
    <3>4. \A c \in 0..(Ch - 1), t \in 0..(Frames - 1) :
              Read(c * Frames + t).element.sample
                  = SampleAt(Frames, Ch, CopiedSamples, c, t)
      <4> TAKE c \in 0..(Ch - 1), t \in 0..(Frames - 1)
      <4>1. data[c * Frames + t].sample = PlaneSample(c, t)
        BY <2>1, CompletePlanes DEF Stages
      <4> QED  BY <4>1 DEF Read, PlaneSample, SampleAt
    <3>5. ASSUME NEW e \in seen
          PROVE  Kept(Frames, Ch, CopiedSamples, e.element.sample)
      <4>1. PICK n \in 0..(Ch * Frames - 1) : e = Read(n)
        BY <2>6
      <4>2. PICK c \in 0..(Ch - 1), t \in 0..(Frames - 1) : n = c * Frames + t
        <5>1. InPlane(Ch, Frames, n)
          BY <2>2, <3>1, Planes, Zenon
        <5> QED  BY <5>1 DEF InPlane
      <4>3. e.element.sample = SampleAt(Frames, Ch, CopiedSamples, c, t)
        BY <4>1, <4>2, <3>4
      <4> QED  BY <4>3, <2>2, <3>1, <3>2, PlacesKeep
    <3>6. ASSUME NEW k, Kept(Frames, Ch, CopiedSamples, k)
          PROVE  \E e \in seen : k = e.element.sample
      <4>1. HasPlace(Frames, Ch, CopiedSamples, k)
        BY <2>2, <3>1, <3>2, <3>6, KeptHasPlace
      <4>2. PICK c \in 0..(Ch - 1), t \in 0..(Frames - 1) :
                k = SampleAt(Frames, Ch, CopiedSamples, c, t)
        BY <4>1 DEF HasPlace
      <4>3. c * Frames + t \in 0..(Ch * Frames - 1)
        BY <2>2, <3>1, Planes
      <4>4. Read(c * Frames + t) \in seen
        BY <4>3, <2>6
      <4> QED  BY <4>2, <4>4, <3>4
    <3>7. \A k : (k \in 0..(CopiedSamples - 1) /\ ~Lost(k))
                     <=> \E e \in seen : k = e.element.sample
      BY <3>3, <3>5, <3>6
    <3> QED  BY <3>7
  <2> QED  BY <2>8, <2>9
<1> QED  BY <1>4, <1>5

-----------------------------------------------------------------------------
(* The theorems.                                                           *)

\* The invariant the theorems below follow from: copy, planes and what is read of
\* them (prepare_data.c:24-132, main.c:140-169).
THEOREM CopyInvariant == Spec => []CopyInv
<1>1. CopyInv /\ [Next]_vars => CopyInv'
  BY StepTypeOK, StepMapping, StepCopying, StepReturned, StepWrites, StepLayout,
     StepReading, StepReadAsWritten, StepLevel DEF CopyInv
<1> QED  BY <1>1, InitCopyInv, PTL DEF Spec

\* Offsets, counters, the mapping and its elements stay what they are declared to
\* be (prepare_data.c:24-145).
THEOREM TypeCorrect == Spec => []TypeOK
<1>1. CopyInv => TypeOK  BY DEF CopyInv
<1> QED  BY <1>1, CopyInvariant, PTL

\* Of no file does the copy write behind the elements it asked for, but one
\* element behind them where a mono payload ends inside a sample.
THEOREM CopyStaysInBounds == Spec => []WritesInBounds
<1>1. CopyInv => WritesInBounds  BY DEF CopyInv
<1> QED  BY <1>1, CopyInvariant, PTL

\* Whatever the number of channels and samples, process_file finds the samples of
\* a channel in the plane it reads, in their order.
THEOREM CopyIsPlanar == Spec => []PlanarLayout
<1>1. CopyInv => PlanarLayout
  <2> SUFFICES ASSUME CopyInv, pc \in Stages, HasSamples,
                      NEW c \in 0..(Ch - 1), NEW t \in 0..(Frames - 1)
               PROVE  data[c * Frames + t].sample =
                          IF t = 0 /\ c \in 1..Ragged
                          THEN Frames * Ch + c - 1 ELSE t * Ch + c
    BY DEF PlanarLayout, Stages, Ch
  <2>1. Accepted /\ InSwitch /\ Ch \in Nat /\ Ch > 0 /\ mapped > 0
    BY SampleFacts
  <2>2. data[c * Frames + t].sample = PlaneSample(c, t)
    BY CompletePlanes
  <2>3. Frames * Ch \in Nat
    BY <2>1, PlaneFacts
  <2>4. CopiedSamples \in Nat
    BY <2>1, CopyDone
  <2>5. c \in 1..Ragged <=> c >= 1 /\ Frames * Ch + c - 1 < CopiedSamples
    BY <2>1, <2>3, <2>4 DEF Ragged, Ch
  <2> QED  BY <2>2, <2>5 DEF PlaneSample
<1> QED  BY <1>1, CopyInvariant, PTL

\* The level of a file of whole frames is taken over every sample of it, and the
\* samples it misses of any other file are the Lost ones.
THEOREM LevelIsComplete == Spec => []LevelCoversFile
<1>1. CopyInv => LevelCoversFile  BY DEF CopyInv
<1> QED  BY <1>1, CopyInvariant, PTL

\* Only formats the switch comments rule out have a sample read from a member of
\* data_value_t it was not written to.
THEOREM SamplesReadAsWritten == Spec => []ReadAsWritten
<1>1. CopyInv => ReadAsWritten  BY DEF CopyInv
<1> QED  BY <1>1, CopyInvariant, PTL

-----------------------------------------------------------------------------
(* The refinement.                                                         *)

\* A well formed file has a sample, and none that is incomplete.
LEMMA WellFormedFacts ==
    ASSUME TypeOK, Contract!WellFormed(parsed_file_info)
    PROVE  /\ Accepted /\ InSwitch /\ HasSamples /\ ~Incomplete
           /\ Ch \in Nat /\ Ch > 0
           /\ SampleCount \in Nat /\ SampleCount > 0
<1>1. /\ parsed_file_info.result = "SUCCESS" /\ InSwitch
      /\ parsed_file_info.channels >= 1 /\ parsed_file_info.size > 0
      /\ ~Incomplete /\ HasSamples
  BY DEF Contract!WellFormed, Contract!Depths, Contract!BytesPerSample,
         InSwitch, Depths, Incomplete, BytesPerSample, HasSamples
<1>2. Accepted
  BY <1>1, DepthFacts DEF Accepted
<1>3. /\ parsed_file_info.size \in Nat /\ BytesPerSample \in Nat /\ Ch \in Nat
      /\ SampleCount \in Nat
  BY <1>2, FileFacts DEF Accepted
<1>4. parsed_file_info.size =
          BytesPerSample * SampleCount + (parsed_file_info.size % BytesPerSample)
  BY <1>2, <1>3, Division DEF SampleCount, Accepted
<1>5. SampleCount > 0
  <2> SUFFICES ASSUME SampleCount = 0 PROVE FALSE
    BY <1>3
  <2>1. BytesPerSample * SampleCount = 0
    BY <1>3
  <2> QED  BY <2>1, <1>1, <1>4 DEF Incomplete
<1> QED  BY <1>1, <1>2, <1>3, <1>5 DEF Ch

\* The copy of a well formed file that there is memory for does not trap.
LEMMA WellFormedCopies ==
    ASSUME CopyInv, Deinterleave, memory, Contract!WellFormed(parsed_file_info)
    PROVE  pc' = "deinterleave"
<1>1. TypeOK /\ Copying /\ Mapping
  BY DEF CopyInv
<1>2. /\ Accepted /\ ~Incomplete /\ Ch \in Nat /\ Ch > 0
      /\ SampleCount \in Nat /\ SampleCount > 0
  BY <1>1, WellFormedFacts
<1>3. pc = "deinterleave" /\ i < parsed_file_info.size
  BY DEF Deinterleave
<1>4. mapped \in Nat /\ mapped > 0
  BY <1>1, <1>2, <1>3 DEF TypeOK, Copying
<1>5. /\ Done \in Nat /\ Done <= SampleCount /\ Done # SampleCount
      /\ i + BytesPerSample <= parsed_file_info.size
      /\ i + BytesPerSample \in Int /\ parsed_file_info.size \in Nat
  BY <1>2, <1>3, LoopFacts
<1>6. i + BytesPerSample <= parsed_file_info.size + tail
  <2>1. tail \in Nat
    BY <1>1, TailsAssumption DEF TypeOK
  <2> QED  BY <2>1, <1>5
<1>7. IndexOf(Done, Ch, SampleCount) \in DOMAIN data
  <2>1. mapped = AlignSize(SizeToAllocate) /\ DOMAIN data = 0..(mapped \div 4 - 1)
    BY <1>1, <1>3, <1>4 DEF Mapping
  <2>2. /\ IndexOf(Done, Ch, SampleCount) \in Nat
        /\ IndexOf(Done, Ch, SampleCount) < SampleCount
    BY <1>2, <1>5, IndexBounds
  <2>3. mapped \div 4 \in Nat /\ mapped \div 4 >= SampleCount
    <3>1. SizeToAllocate \in Nat /\ SizeToAllocate = 4 * SampleCount
      BY <1>2 DEF SizeToAllocate
    <3>2. mapped >= 4 * SampleCount
      BY <2>1, <3>1, AlignFacts
    <3>3. 4 \in Nat /\ 4 > 0
      OBVIOUS
    <3> QED  BY <3>2, <3>3, <1>2, <1>4, Division, QuotientBelow
  <2> QED  BY <2>1, <2>2, <2>3, <1>2
<1>8. GetDeinterleavedIndex(i, parsed_file_info.channels, parsed_file_info.size,
                            BytesPerSample)
          = IndexOf(Done, Ch, SampleCount)
  BY DEF GetDeinterleavedIndex, IndexOf, Done, Ch, SampleCount
<1> QED  BY <1>2, <1>3, <1>4, <1>6, <1>7, <1>8 DEF Deinterleave, Ch

\* The level of a well formed file is read from its copy.
LEMMA WellFormedReads ==
    ASSUME CopyInv, AnalyzeSample, Contract!WellFormed(parsed_file_info)
    PROVE  pc' = "analyze"
<1>1. TypeOK /\ Mapping
  BY DEF CopyInv
<1>2. /\ pc = "analyze" /\ channel < prepared_data.channels
      /\ sample < SampleCountChannel
  BY DEF AnalyzeSample
<1>3. /\ Accepted /\ Ch \in Nat /\ Ch > 0 /\ Frames \in Nat
      /\ SampleCountChannel = Frames /\ prepared_data.channels = Ch
  BY <1>2, ReadFacts
<1>4. channel \in 0..(Ch - 1) /\ sample \in 0..(Frames - 1)
  BY <1>1, <1>2, <1>3 DEF TypeOK
<1>5. mapped > 0
  BY <1>1, <1>2, WellFormedFacts, SampleFacts DEF Stages
<1>6. mapped = AlignSize(SizeToAllocate) /\ DOMAIN data = 0..(mapped \div 4 - 1)
  BY <1>1, <1>2, <1>5 DEF Mapping
<1>7. channel * Frames + sample \in DOMAIN data
  BY <1>1, <1>3, <1>4, <1>6, PlanesFit
<1>8. sample + channel * SampleCountChannel = channel * Frames + sample
  BY <1>3, <1>4
<1> QED  BY <1>2, <1>7, <1>8 DEF AnalyzeSample

\* What prepare_data returns from is what the contract says it returns from.
LEMMA ReturnsPrepared ==
    ASSUME CopyInv, FinishCopy
    PROVE  Contract!Preparable(parsed_file_info, memory)
<1>1. TypeOK /\ Copying /\ Mapping
  BY DEF CopyInv
<1>2. /\ pc = "deinterleave"
      /\ InSwitch => i >= parsed_file_info.size
  BY DEF FinishCopy, InSwitch
<1>3. Accepted
  BY <1>1, <1>2 DEF Copying
<1>4. /\ parsed_file_info.size \in Nat /\ parsed_file_info.bits_per_sample \in Nat
      /\ BytesPerSample \in Nat /\ BytesPerSample > 0
      /\ SampleCount \in Nat /\ Ch \in Nat
  BY <1>1, <1>3, FileFacts DEF Accepted
<1>5. parsed_file_info.bits_per_sample >= 8
  BY <1>4 DEF BytesPerSample
<1>6. ASSUME Contract!CopiesSamples(parsed_file_info)
      PROVE  memory /\ Ch >= 1 /\ parsed_file_info.size >= BytesPerSample
  <2>1. InSwitch /\ parsed_file_info.size > 0
    BY <1>6 DEF Contract!CopiesSamples, Contract!Depths, InSwitch, Depths
  <2>2. i \in Nat /\ i > 0
    BY <1>1, <1>2, <1>4, <2>1 DEF TypeOK
  <2>3. mapped > 0 /\ Ch > 0
    BY <1>1, <1>2, <2>2 DEF Copying
  <2>4. memory /\ SampleCount > 0
    BY <1>1, <2>3 DEF Mapping
  <2>5. parsed_file_info.size >= BytesPerSample
    <3>1. /\ parsed_file_info.size % BytesPerSample \in 0..(BytesPerSample - 1)
          /\ parsed_file_info.size = BytesPerSample * SampleCount
                                     + (parsed_file_info.size % BytesPerSample)
      BY <1>4, Division DEF SampleCount
    <3>2. BytesPerSample * SampleCount >= BytesPerSample * 1
      BY <1>4, <2>4
    <3>3. BytesPerSample * SampleCount \in Nat
      BY <1>4
    <3> QED  BY <3>1, <3>2, <3>3, <1>4
  <2> QED  BY <2>3, <2>4, <2>5, <1>4
<1> QED  BY <1>3, <1>5, <1>6
         DEF Contract!Preparable, Contract!BytesPerSample, BytesPerSample, Ch

\* prepare_data and the level do to a file what their contract allows.
THEOREM CopyImplementsContract == Spec => ImplementsContract
<1>1. Init => Contract!Init
  <2>1. Init => /\ pc = "allocate" /\ memory \in BOOLEAN
                /\ parsed_file_info \in ParsedFileInfo
    BY InfosAssumption DEF Init
  <2>2. Contract!ParsedFileInfo = ParsedFileInfo
    BY DEF Contract!ParsedFileInfo, ParsedFileInfo, Contract!DataTypes, DataTypes,
           Contract!ParseResults, ParseResults
  <2> QED  BY <2>1, <2>2 DEF Contract!Init
<1>2. CopyInv /\ [Next]_vars => [Contract!Next]_Contract!vars
  <2> SUFFICES ASSUME CopyInv, [Next]_vars PROVE [Contract!Next]_Contract!vars
    OBVIOUS
  <2>1. UNCHANGED <<memory, parsed_file_info>>
    BY StepSame
  <2>2. TypeOK /\ Returned
    BY DEF CopyInv
  <2> USE <2>1 DEF Contract!Next, Contract!vars, Contract!Prepare, Contract!Report,
                   Contract!Stop
  <2>3. CASE Reject
    BY <2>3 DEF Reject, Abort, Contract!Preparable, Contract!WellFormed
  <2>4. CASE Allocate
    <3>1. pc = "allocate" /\ pc' \in {"trap", "abort", "deinterleave"}
      BY <2>4 DEF Allocate, Trap, Abort
    <3>2. CASE pc' = "deinterleave"
      BY <3>1, <3>2
    <3>3. CASE pc' \in {"trap", "abort"}
      <4>1. ~(Contract!WellFormed(parsed_file_info) /\ memory)
        <5> SUFFICES ASSUME Contract!WellFormed(parsed_file_info), memory PROVE FALSE
          OBVIOUS
        <5>1. /\ Accepted /\ SampleCount \in Nat /\ SampleCount > 0
          BY <2>2, WellFormedFacts
        <5>2. SizeToAllocate > 0 /\ BytesPerSample > 0
          BY <5>1 DEF SizeToAllocate, Accepted
        <5> QED  BY <5>2, <3>3, <2>4 DEF Allocate, Trap, Abort
      <4> QED  BY <4>1, <3>1, <3>3
    <3> QED  BY <3>1, <3>2, <3>3
  <2>5. CASE FinishCopy
    <3>1. CASE pc' = "measure"
      BY <2>5, <3>1, ReturnsPrepared DEF FinishCopy
    <3>2. CASE pc' # "measure"
      <4>1. pc = "deinterleave" /\ pc' = "abort"
            /\ parsed_file_info.bits_per_sample \notin Depths
        BY <2>5, <3>2 DEF FinishCopy, Abort
      <4> QED  BY <4>1 DEF Contract!WellFormed, Contract!Depths, Depths
    <3> QED  BY <3>1, <3>2
  <2>6. CASE Deinterleave
    <3>1. pc = "deinterleave" /\ pc' \in {"deinterleave", "trap"}
      BY <2>6 DEF Deinterleave, Trap
    <3>2. pc' = "trap" => ~(Contract!WellFormed(parsed_file_info) /\ memory)
      BY <2>6, WellFormedCopies
    <3> QED  BY <3>1, <3>2
  <2>7. CASE Measure
    <3>1. /\ pc = "measure" /\ pc' \in {"analyze", "trap"}
          /\ pc' = "trap" => prepared_data.channels = 0
      BY <2>7 DEF Measure, Trap
    <3>2. pc' = "trap" => ~Contract!WellFormed(parsed_file_info)
      BY <2>2, <3>1, WellFormedFacts DEF Returned, Stages, Accepted
    <3> QED  BY <3>1, <3>2
  <2>8. CASE AnalyzeSample
    <3>1. pc = "analyze" /\ pc' \in {"analyze", "trap"}
      BY <2>8 DEF AnalyzeSample, Trap
    <3>2. pc' = "trap" => ~Contract!WellFormed(parsed_file_info)
      BY <2>8, WellFormedReads
    <3> QED  BY <3>1, <3>2
  <2>9. CASE NextChannel
    BY <2>9 DEF NextChannel, NextChannelBy
  <2>10. CASE Report
    <3>1. pc = "analyze" /\ pc' = "unload"
      BY <2>10 DEF Report
    <3>2. Accepted /\ Ch \in Nat /\ Ch > 0
      BY <3>1, ReadFacts
    <3>3. Contract!Measurable(parsed_file_info)
      BY <3>2 DEF Contract!Measurable, Accepted, Ch
    <3> QED  BY <3>1, <3>3
  <2>11. CASE UnloadPreparedData
    BY <2>11 DEF UnloadPreparedData
  <2>12. CASE UNCHANGED vars
    BY <2>12 DEF vars
  <2> QED  BY <2>3, <2>4, <2>5, <2>6, <2>7, <2>8, <2>9, <2>10, <2>11, <2>12 DEF Next
<1> QED  BY <1>1, <1>2, CopyInvariant, PTL DEF Spec, ImplementsContract, Contract!Spec

-----------------------------------------------------------------------------
(* The values of the samples.                                              *)

\* Division of any integer: the quotient and the rest are determined.
LEMMA IntDivision ==
    ASSUME NEW x, x \in Int, NEW a, a \in Nat, a > 0
    PROVE  /\ x \div a \in Int /\ x % a \in 0..(a - 1)
           /\ x = a * (x \div a) + (x % a)
  OBVIOUS

LEMMA Rest ==
    ASSUME NEW x, NEW a, a \in Nat, a > 0, NEW q, q \in Int,
           NEW r, r \in 0..(a - 1), x = a * q + r
    PROVE  x % a = r
<1>1. x \in Int
  OBVIOUS
<1> DEFINE d == x \div a   s == x % a
<1>2. d \in Int /\ s \in 0..(a - 1) /\ x = a * d + s
  BY <1>1, IntDivision
<1>3. s = x % a
  OBVIOUS
<1> HIDE DEF d, s
<1>4. a * (q - d) = s - r
  <2>1. a * (q - d) = a * q - a * d /\ a * q \in Int /\ a * d \in Int
    BY <1>2
  <2> QED  BY <2>1, <1>2
<1>5. q - d < 1
  <2> SUFFICES ASSUME q - d >= 1 PROVE FALSE
    BY <1>2
  <2>1. a * (q - d) >= a * 1
    BY <1>2
  <2> QED  BY <2>1, <1>2, <1>4
<1>6. d - q < 1
  <2> SUFFICES ASSUME d - q >= 1 PROVE FALSE
    BY <1>2
  <2>1. a * (d - q) >= a * 1 /\ a * (d - q) = r - s
    BY <1>2, <1>4
  <2> QED  BY <2>1, <1>2
<1>7. q = d
  BY <1>2, <1>5, <1>6
<1> QED  BY <1>2, <1>3, <1>4, <1>7

-----------------------------------------------------------------------------
(* The conversion of the samples.                                          *)

LEMMA Power ==
    ASSUME NEW b, b \in Nat, NEW h, h \in Nat, h > 0, b = 2 * h,
           NEW s, s \in Nat, s > 0
    PROVE  /\ s * b \in Nat /\ s * b > 0 /\ h * s \in Nat /\ h * s > 0
           /\ s * b = 2 * (h * s) /\ (s * b) \div 2 = h * s
<1>1. h * s \in Nat /\ h * s >= h * 1
  OBVIOUS
<1>2. s * b = 2 * (h * s)
  OBVIOUS
<1>3. s * b = 2 * (h * s) + 0 /\ 2 \in Nat /\ 2 > 0 /\ 0 \in 0..(2 - 1)
  BY <1>1, <1>2
<1>4. (s * b) \div 2 = h * s
  BY <1>1, <1>3, Quotient
<1> QED  BY <1>1, <1>2, <1>4

\* Half of the values of k bytes are negative, and the shift scales them all to
\* those of a u32.
LEMMA Sizes ==
    ASSUME NEW k, k \in 1..4
    PROVE  /\ Values[k] \in Nat /\ Values[k] > 0
           /\ Values[k] \div 2 \in Nat /\ Values[k] \div 2 > 0
           /\ Values[k] = 2 * (Values[k] \div 2)
           /\ Shifts[k] \in Nat /\ Shifts[k] > 0
           /\ Values[k] * Shifts[k] = U32 /\ U32 \div Values[k] = Shifts[k]
<1> DEFINE b == Byte   h == Byte \div 2   b2 == b * b   b3 == b2 * b   b4 == b3 * b
<1>1. b \in Nat /\ h \in Nat /\ h > 0 /\ b = 2 * h /\ b > 0
  BY ByteAssumption
<1>2. /\ Values[1] = b /\ Values[2] = b2 /\ Values[3] = b3 /\ Values[4] = b4
      /\ Shifts[1] = b3 /\ Shifts[2] = b2 /\ Shifts[3] = b /\ Shifts[4] = 1
      /\ U32 = b4
  BY DEF Values, Shifts, U32
<1>3. b2 = b * b /\ b3 = b2 * b /\ b4 = b3 * b /\ b = 1 * b
  BY <1>1
<1> HIDE DEF b, h, b2, b3, b4
<1>4. b \div 2 \in Nat /\ b \div 2 > 0 /\ b = 2 * (b \div 2)
  BY <1>1
<1>5. /\ b2 \in Nat /\ b2 > 0 /\ b2 \div 2 \in Nat /\ b2 \div 2 > 0
      /\ b2 = 2 * (b2 \div 2)
  BY <1>1, <1>3, Power
<1>6. /\ b3 \in Nat /\ b3 > 0 /\ b3 \div 2 \in Nat /\ b3 \div 2 > 0
      /\ b3 = 2 * (b3 \div 2)
  BY <1>1, <1>3, <1>5, Power
<1>7. /\ b4 \in Nat /\ b4 > 0 /\ b4 \div 2 \in Nat /\ b4 \div 2 > 0
      /\ b4 = 2 * (b4 \div 2)
  BY <1>1, <1>3, <1>6, Power
<1>8. b * b3 = b4 /\ b2 * b2 = b4 /\ b3 * b = b4 /\ b4 * 1 = b4
  <2>1. b3 = b * b2
    BY <1>1, <1>3, <1>5
  <2>2. b2 * b2 = (b * b2) * b
    BY <1>1, <1>3, <1>5
  <2> QED  BY <2>1, <2>2, <1>1, <1>3, <1>5, <1>6, <1>7
<1>9. Values[k] * Shifts[k] = U32
  BY <1>2, <1>8
<1>10. /\ Values[k] \in Nat /\ Values[k] > 0
       /\ Values[k] \div 2 \in Nat /\ Values[k] \div 2 > 0
       /\ Values[k] = 2 * (Values[k] \div 2)
       /\ Shifts[k] \in Nat /\ Shifts[k] > 0
  BY <1>1, <1>2, <1>4, <1>5, <1>6, <1>7
<1>11. U32 \div Values[k] = Shifts[k]
  <2>1. U32 = Values[k] * Shifts[k] + 0 /\ 0 \in 0..(Values[k] - 1)
    BY <1>9, <1>10
  <2> QED  BY <2>1, <1>10, Quotient
<1> QED  BY <1>9, <1>10, <1>11

LEMMA Range32 ==
    /\ U32 \in Nat /\ U32 > 0 /\ I32Max \in Nat
    /\ U32 \div 2 = I32Max + 1 /\ U32 = 2 * I32Max + 2
<1>1. 4 \in 1..4 /\ U32 = Values[4]
  BY DEF U32
<1>2. /\ U32 \in Nat /\ U32 > 0 /\ U32 \div 2 \in Nat /\ U32 \div 2 > 0
      /\ U32 = 2 * (U32 \div 2)
  BY <1>1, Sizes
<1> QED  BY <1>2 DEF I32Max

\* What an i32 holds, modulo the values of a u32.
LEMMA Wrapped ==
    ASSUME NEW m, m \in (-(I32Max + 1))..I32Max, NEW q, q \in Int
    PROVE  ToI32(m + U32 * q) = m
<1>1. /\ U32 \in Nat /\ U32 > 0 /\ I32Max \in Nat
      /\ U32 \div 2 = I32Max + 1 /\ U32 = 2 * I32Max + 2
  BY Range32
<1> DEFINE x == m + U32 * q   u == x % U32
<1>2. ToI32(x) = IF u >= I32Max + 1 THEN u - U32 ELSE u
  BY <1>1 DEF ToI32, ToU32, ToSigned, U32
<1>3. m \in Int /\ U32 * q \in Int
  BY <1>1
<1>4. CASE m >= 0
  <2>1. m \in 0..(U32 - 1) /\ x = U32 * q + m
    BY <1>1, <1>3, <1>4
  <2>2. x % U32 = m
    BY <2>1, <1>1, Rest
  <2> QED  BY <2>2, <1>1, <1>2
<1>5. CASE m < 0
  <2>1. /\ m + U32 \in 0..(U32 - 1) /\ q - 1 \in Int
        /\ U32 * (q - 1) = U32 * q - U32
    BY <1>1, <1>3, <1>5
  <2>2. x = U32 * (q - 1) + (m + U32)
    BY <2>1, <1>1, <1>3
  <2>3. x % U32 = m + U32
    BY <2>1, <2>2, <1>1, Rest
  <2> QED  BY <2>3, <1>1, <1>2, <1>3, <1>5
<1> QED  BY <1>3, <1>4, <1>5

\* The value of k bytes, and what is left of it at the top of 32 bits.
LEMMA SignedFacts ==
    ASSUME NEW k, k \in 1..4, NEW x, x \in 0..(Values[k] - 1)
    PROVE  /\ ToSigned(x, k) \in Int
           /\ ToSigned(x, k) \in (-(Values[k] \div 2))..(Values[k] \div 2 - 1)
           /\ \E q \in Int : ToSigned(x, k) = x + Values[k] * q
           /\ ToSigned(x, k) * Shifts[k] \in (-(I32Max + 1))..I32Max
<1> DEFINE v == Values[k]   h == Values[k] \div 2   s == Shifts[k]   n == ToSigned(x, k)
<1>1. /\ v \in Nat /\ h \in Nat /\ h > 0 /\ v = 2 * h
      /\ s \in Nat /\ s > 0 /\ v * s = U32
  BY Sizes
<1>2. n = IF x >= h THEN x - v ELSE x
  BY DEF ToSigned
<1>3. x \in 0..(v - 1)
  OBVIOUS
<1>4. U32 = 2 * (I32Max + 1) /\ I32Max \in Nat /\ U32 \in Nat
  BY Range32
<1> HIDE DEF v, h, s, n
<1>5. n \in (-h)..(h - 1)
  BY <1>1, <1>2, <1>3
<1>6. \E q \in Int : n = x + v * q
  <2>1. CASE x >= h
    <3>1. n = x + v * (-1) /\ -1 \in Int
      BY <2>1, <1>1, <1>2, <1>3
    <3> QED  BY <3>1
  <2>2. CASE x < h
    <3>1. n = x + v * 0 /\ 0 \in Int
      BY <2>2, <1>1, <1>2, <1>3
    <3> QED  BY <3>1
  <2> QED  BY <2>1, <2>2, <1>1, <1>3
<1>7. h * s = I32Max + 1
  <2>1. 2 * (h * s) = v * s /\ h * s \in Nat
    BY <1>1
  <2> QED  BY <2>1, <1>1, <1>4
<1>8. -(h * s) <= n * s
  <2>1. (-h) * s <= n * s
    BY <1>1, <1>5
  <2> QED  BY <2>1, <1>1, <1>5
<1>9. n * s <= h * s - s
  <2>1. n * s <= (h - 1) * s
    BY <1>1, <1>5
  <2>2. (h - 1) * s = h * s - s
    BY <1>1
  <2> QED  BY <2>1, <2>2
<1>10. n * s \in Int
  BY <1>1, <1>5
<1>11. n * s \in (-(I32Max + 1))..I32Max
  BY <1>1, <1>4, <1>7, <1>8, <1>9, <1>10
<1> QED  BY <1>5, <1>6, <1>11, <1>1 DEF v, h, s, n

\* The 24-bit loop extends the sign.
LEMMA SignIsExtended ==
    ASSUME NEW x, x \in 0..(Values[3] - 1)
    PROVE  SignExtended(x) = ToSigned(x, 3)
<1>1. 3 \in 1..4 /\ 4 \in 1..4
  OBVIOUS
<1>2. /\ Values[3] \in Nat /\ Values[3] \div 2 \in Nat /\ Values[3] = 2 * (Values[3] \div 2)
      /\ Values[3] * Shifts[3] = U32 /\ Shifts[3] \in Nat /\ Shifts[3] > 0
  BY <1>1, Sizes
<1>3. /\ U32 \in Nat /\ I32Max \in Nat /\ U32 = 2 * (I32Max + 1)
  BY Range32
<1>4. CASE x >= Values[3] \div 2
  <2>1. Values[3] * 1 <= Values[3] * Shifts[3]
    BY <1>2
  <2>2. Values[3] <= U32
    BY <2>1, <1>2
  <2>3. x - Values[3] \in (-(I32Max + 1))..I32Max
    BY <2>2, <1>2, <1>3, <1>4
  <2>4. x + (U32 - Values[3]) = (x - Values[3]) + U32 * 1
    BY <1>2, <1>3
  <2>5. ToI32(x + (U32 - Values[3])) = x - Values[3]
    BY <2>3, <2>4, Wrapped
  <2> QED  BY <2>5, <1>4 DEF SignExtended, ToSigned
<1>5. CASE ~(x >= Values[3] \div 2)
  BY <1>5 DEF SignExtended, ToSigned
<1> QED  BY <1>4, <1>5

\* Every depth is scaled to full scale without loss.
LEMMA Conversion ==
    ASSUME NEW k, k \in 1..4, NEW x, x \in 0..(Values[k] - 1)
    PROVE  /\ ConvertInt(x, k) = ToSigned(x, k) * (U32 \div Values[k])
           /\ ConvertInt(x, k) \in (-(I32Max + 1))..I32Max
<1> DEFINE n == ToSigned(x, k)   s == Shifts[k]   u == ToU32(n)
<1>1. n \in Int /\ n * s \in (-(I32Max + 1))..I32Max
  BY SignedFacts
<1>2. s \in Nat /\ U32 \div Values[k] = s
  BY Sizes
<1>3. (IF k = 3 THEN SignExtended(x) ELSE ToSigned(x, k)) = n
  BY SignIsExtended
<1>4. ConvertInt(x, k) = ToI32(u * s)
  BY <1>3 DEF ConvertInt
<1>5. U32 \in Nat /\ U32 > 0 /\ I32Max \in Nat
  BY Range32
<1> HIDE DEF n
<1>6. PICK q \in Int : n = U32 * q + u /\ u \in Int
  <2>1. n \div U32 \in Int /\ n % U32 \in Int /\ n = U32 * (n \div U32) + (n % U32)
    BY <1>1, <1>5, IntDivision
  <2> QED  BY <2>1 DEF ToU32
<1> HIDE DEF s, u
<1>7. u * s = n * s + U32 * (-(q * s)) /\ -(q * s) \in Int
  <2>1. u = n - U32 * q /\ U32 * q \in Int
    BY <1>1, <1>5, <1>6
  <2>2. u * s = n * s - (U32 * q) * s
    BY <2>1, <1>1, <1>2
  <2>3. (U32 * q) * s = U32 * (q * s) /\ q * s \in Int
    BY <1>2, <1>5
  <2>4. U32 * (-(q * s)) = -(U32 * (q * s)) /\ U32 * (q * s) \in Int /\ n * s \in Int
    BY <2>3, <1>1, <1>2, <1>5
  <2> QED  BY <2>2, <2>3, <2>4
<1>8. ToI32(u * s) = n * s
  BY <1>1, <1>7, Wrapped
<1> QED  BY <1>1, <1>2, <1>4, <1>8 DEF n

\* A magnitude survives the casts of the level: to u32, and to i32 and back.
LEMMA CastFacts ==
    ASSUME NEW m, m \in 0..(I32Max + 1)
    PROVE  ToU32(m) = m /\ I32ToDb(ToI32(m)) = m
<1>1. /\ U32 \in Nat /\ U32 > 0 /\ I32Max \in Nat
      /\ U32 \div 2 = I32Max + 1 /\ U32 = 2 * I32Max + 2
  BY Range32
<1>2. Threshold \in Nat /\ Threshold > I32Max
  BY ThresholdAssumption
<1>3. ToU32(m) = m
  <2>1. m = U32 * 0 + m /\ 0 \in Int /\ m \in 0..(U32 - 1)
    BY <1>1
  <2> QED  BY <2>1, <1>1, Rest DEF ToU32
<1>4. Magnitude(ToI32(m)) = m
  <2>1. CASE m <= I32Max
    <3>1. m \in (-(I32Max + 1))..I32Max /\ m + U32 * 0 = m /\ 0 \in Int
      BY <2>1, <1>1
    <3>2. ToI32(m + U32 * 0) = m
      BY <3>1, Wrapped
    <3> QED  BY <3>1, <3>2 DEF Magnitude
  <2>2. CASE m = I32Max + 1
    <3>1. /\ -m \in (-(I32Max + 1))..I32Max /\ (-m) + U32 * 1 = m /\ 1 \in Int
          /\ -m < 0 /\ -(-m) = m
      BY <2>2, <1>1
    <3>2. ToI32((-m) + U32 * 1) = -m
      BY <3>1, Wrapped
    <3>3. ToI32(m) = -m
      BY <3>1, <3>2
    <3> QED  BY <3>1, <3>3 DEF Magnitude
  <2> QED  BY <2>1, <2>2, <1>1
<1>5. m * Threshold > I32Max <=> m > 0
  <2>1. m > 0 => m * Threshold >= 1 * Threshold
    BY <1>1, <1>2
  <2>2. m = 0 => m * Threshold = 0
    BY <1>2
  <2>3. m * Threshold \in Nat
    BY <1>1, <1>2
  <2> QED  BY <2>1, <2>2, <2>3, <1>1, <1>2
<1>6. I32ToDb(ToI32(m)) = IF m * Threshold > I32Max THEN m ELSE 0
  BY <1>4 DEF I32ToDb
<1> QED  BY <1>1, <1>3, <1>5, <1>6

\* The conversion of a f64 keeps the order of magnitudes.
LEMMA NarrowFacts ==
    /\ \A x \in Int : /\ x # NaN /\ Narrow(x) \in Int /\ Narrow(x) # NaN
                      /\ Magnitude(Narrow(x)) = Narrow(Magnitude(x))
    /\ \A x \in Nat : /\ Narrow(x) \in Nat
                      /\ Narrow(x) = IF x > LargestF32 THEN Infinity
                                     ELSE IF x < SmallestF32 THEN 0 ELSE x
    /\ \A x, y \in Nat : x <= y => Narrow(x) <= Narrow(y)
    /\ Narrow(NaN) = NaN /\ Narrow(0) = 0
<1>1. /\ SmallestF32 \in Nat /\ FloatThreshold \in Nat /\ LargestF32 \in Nat
      /\ Infinity \in Nat /\ 0 < SmallestF32 /\ SmallestF32 < FloatThreshold
      /\ FloatThreshold < LargestF32 /\ LargestF32 < Infinity
      /\ NaN \notin Int
  BY FloatAssumption
<1>2. \A x \in Int : x # NaN
  BY <1>1
<1>3. ASSUME NEW x \in Int
      PROVE  Narrow(x) = IF Magnitude(x) < SmallestF32 THEN 0
                         ELSE IF Magnitude(x) <= LargestF32 THEN x
                         ELSE IF x < 0 THEN -Infinity ELSE Infinity
  BY <1>2 DEF Narrow
<1>4. \A x \in Int : Magnitude(x) \in Nat /\ (x >= 0 => Magnitude(x) = x)
                     /\ (x < 0 => Magnitude(x) = -x)
  BY DEF Magnitude
<1>5. ASSUME NEW x \in Nat
      PROVE  Narrow(x) = IF x > LargestF32 THEN Infinity
                         ELSE IF x < SmallestF32 THEN 0 ELSE x
  <2>1. x \in Int /\ ~(x < 0) /\ Magnitude(x) = x
    BY <1>4
  <2> QED  BY <2>1, <1>1, <1>3
<1>6. ASSUME NEW x \in Int
      PROVE  Narrow(x) \in Int /\ Magnitude(Narrow(x)) = Narrow(Magnitude(x))
  <2>1. Narrow(x) \in Int
    BY <1>1, <1>3, <1>4
  <2>2. CASE x >= 0
    <3>1. x \in Nat /\ Magnitude(x) = x /\ Narrow(x) \in Nat
      BY <2>2, <1>1, <1>4, <1>5
    <3> QED  BY <2>1, <3>1, <1>4
  <2>3. CASE x < 0
    <3>1. -x \in Nat /\ Magnitude(x) = -x
      BY <2>3, <1>4
    <3>2. Narrow(-x) = IF -x > LargestF32 THEN Infinity
                       ELSE IF -x < SmallestF32 THEN 0 ELSE -x
      BY <3>1, <1>5
    <3>3. Narrow(x) = IF -x > LargestF32 THEN -Infinity
                      ELSE IF -x < SmallestF32 THEN 0 ELSE x
      BY <2>3, <3>1, <1>1, <1>3
    <3>4. Magnitude(Narrow(x)) = Narrow(-x)
      BY <2>3, <3>2, <3>3, <1>1, <1>4
    <3> QED  BY <2>1, <3>1, <3>4
  <2> QED  BY <2>2, <2>3
<1>7. ASSUME NEW x \in Nat, NEW y \in Nat, x <= y PROVE Narrow(x) <= Narrow(y)
  BY <1>1, <1>5, <1>7
<1>8. Narrow(NaN) = NaN
  BY DEF Narrow
<1>9. Narrow(0) = 0
  BY <1>1, <1>5
<1>10. \A x \in Nat : Narrow(x) \in Nat
  BY <1>1, <1>5
<1> QED  BY <1>2, <1>5, <1>6, <1>7, <1>8, <1>9, <1>10

-----------------------------------------------------------------------------
(* The largest of the elements read so far.                                *)

LEMMA LargestWith ==
    ASSUME NEW numbers, numbers \in SUBSET Nat, NEW m, m \in Nat, IsLargest(m, numbers),
           NEW y, y \in Nat
    PROVE  IsLargest(IF y > m THEN y ELSE m, numbers \cup {y})
  BY DEF IsLargest

\* The sample of the file an element is.
Raw(e) == file[e.element.sample]

IsInt == parsed_file_info.data_type = "INT"

\* A float as the f32 it is copied to.
AsF32(x) == IF BytesPerSample = 8 THEN Narrow(x) ELSE x

\* The file of a parsed record has the samples of its depth.
FileOfInfo ==
    parsed_file_info.result = "SUCCESS" =>
        CommentedFormat(parsed_file_info) /\ file \in [0..(CopiedSamples - 1) -> Samples]

\* What was copied, and what was read, are samples of the file.
CopyOfFile ==
    /\ \A n \in DOMAIN data : data[n] # Zero => data[n].sample \in DOMAIN file
    /\ \A e \in seen : e.element.sample \in DOMAIN file

Magnitudes == {Magnitude(Scaled(Raw(e))) : e \in seen}

NumberMagnitudes == {Magnitude(Raw(e)) : e \in {s \in seen : Raw(s) # NaN}}

LoudestSoFar ==
    /\ IsInt => IsLargest(max_value, Magnitudes)
    /\ ~IsInt => \E m \in Nat : IsLargest(m, NumberMagnitudes) /\ max_value = AsF32(m)

Told ==
    pc \in {"unload", "done"} =>
        level = IF IsInt THEN max_value ELSE F32ToDb(max_value)

LevelInv == LevelTypeOK /\ FileOfInfo /\ CopyOfFile /\ LoudestSoFar /\ Told

\* A sample of a parsed file, by the type of the file.
LEMMA RawFacts ==
    ASSUME TypeOK, FileOfInfo, parsed_file_info.result = "SUCCESS",
           NEW k, k \in DOMAIN file
    PROVE  /\ IsInt => BytesPerSample \in 1..4 /\ file[k] \in 0..(Values[BytesPerSample] - 1)
           /\ ~IsInt => /\ BytesPerSample \in {4, 8}
                        /\ file[k] = NaN \/ file[k] \in Int
<1>1. parsed_file_info.data_type \in DataTypes
  BY FileFacts
<1>2. CommentedFormat(parsed_file_info) /\ file[k] \in Samples
  BY DEF FileOfInfo
<1>3. IsInt => BytesPerSample \in 1..4
  BY <1>2 DEF CommentedFormat, BytesPerSample, IsInt
<1>4. ~IsInt => BytesPerSample \in {4, 8}
  BY <1>1, <1>2 DEF CommentedFormat, BytesPerSample, IsInt, DataTypes
<1>5. IsInt => file[k] \in 0..(Values[BytesPerSample] - 1)
  BY <1>2, <1>3, SamplesAssumption DEF Samples, IsInt
<1>6. ~IsInt => file[k] = NaN \/ file[k] \in (-Infinity)..Infinity
  BY <1>2, <1>4, SamplesAssumption DEF Samples, IsInt
<1>7. Infinity \in Nat
  BY FloatAssumption
<1> QED  BY <1>3, <1>4, <1>5, <1>6, <1>7

\* The value of an element of a file of integers, and what it does to the maximum.
LEMMA IntMeasured ==
    ASSUME TypeOK, FileOfInfo, parsed_file_info.result = "SUCCESS", IsInt,
           NEW k, k \in DOMAIN file
    PROVE  /\ ValueOf(k) = Scaled(file[k])
           /\ Magnitude(Scaled(file[k])) \in 0..(I32Max + 1)
           /\ prepared_data.data_type = "INT" =>
                 MaxWith(ValueOf(k)) = IF Magnitude(Scaled(file[k])) > max_value
                                       THEN Magnitude(Scaled(file[k])) ELSE max_value
<1>1. BytesPerSample \in 1..4 /\ file[k] \in 0..(Values[BytesPerSample] - 1)
  BY RawFacts
<1>2. /\ ConvertInt(file[k], BytesPerSample) = Scaled(file[k])
      /\ Scaled(file[k]) \in (-(I32Max + 1))..I32Max
  BY <1>1, Conversion DEF Scaled
<1>3. ValueOf(k) = Scaled(file[k])
  BY <1>2 DEF ValueOf, IsInt
<1>4. Magnitude(Scaled(file[k])) \in 0..(I32Max + 1)
  BY <1>2, Range32 DEF Magnitude
<1>5. Current(ValueOf(k)) = Magnitude(Scaled(file[k]))
  BY <1>3, <1>4, CastFacts DEF Current
<1> QED  BY <1>3, <1>4, <1>5 DEF MaxWith

\* The same of a file of floats: NaN does nothing.
LEMMA FloatMeasured ==
    ASSUME TypeOK, FileOfInfo, parsed_file_info.result = "SUCCESS", ~IsInt,
           prepared_data.data_type # "INT",
           NEW k, k \in DOMAIN file
    PROVE  /\ file[k] = NaN => MaxWith(ValueOf(k)) = max_value
           /\ file[k] # NaN =>
                 /\ file[k] \in Int /\ Magnitude(file[k]) \in Nat
                 /\ AsF32(Magnitude(file[k])) \in Nat
                 /\ MaxWith(ValueOf(k)) =
                        IF AsF32(Magnitude(file[k])) > max_value
                        THEN AsF32(Magnitude(file[k])) ELSE max_value
<1>1. BytesPerSample \in {4, 8} /\ (file[k] = NaN \/ file[k] \in Int)
  BY RawFacts
<1>2. ValueOf(k) = AsF32(file[k])
  BY DEF ValueOf, IsInt, AsF32
<1>3. CASE file[k] = NaN
  <2>1. ValueOf(k) = NaN
    BY <1>2, <1>3, NarrowFacts DEF AsF32
  <2> QED  BY <2>1, <1>3 DEF MaxWith, Larger
<1>4. CASE file[k] # NaN
  <2>1. file[k] \in Int /\ Magnitude(file[k]) \in Nat
    BY <1>1, <1>4 DEF Magnitude
  <2>2. /\ AsF32(file[k]) \in Int /\ AsF32(file[k]) # NaN
        /\ Magnitude(AsF32(file[k])) = AsF32(Magnitude(file[k]))
        /\ AsF32(Magnitude(file[k])) \in Nat
    BY <2>1, NarrowFacts DEF AsF32
  <2>3. MaxWith(ValueOf(k)) = IF Magnitude(AsF32(file[k])) > max_value
                              THEN Magnitude(AsF32(file[k])) ELSE max_value
    BY <1>2, <2>2 DEF MaxWith, Larger
  <2> QED  BY <1>4, <2>1, <2>2, <2>3
<1> QED  BY <1>3, <1>4

-----------------------------------------------------------------------------
(* The steps of Level are those of PrepareData.                            *)

LEMMA LevelSteps ==
    ASSUME [LevelNext]_<<vars, values>>
    PROVE  [Next]_vars
  BY DEF LevelNext, OtherStep, MeasureSample, ReportLevel, Next

\* So the copy, the planes and what is read of them are as without the values.
LEMMA LevelCopyInv == LevelSpec => []CopyInv
<1>1. LevelInit => CopyInv
  BY InitCopyInv DEF LevelInit
<1>2. CopyInv /\ [LevelNext]_<<vars, values>> => CopyInv'
  BY LevelSteps, StepTypeOK, StepMapping, StepCopying, StepReturned, StepWrites,
     StepLayout, StepReading, StepReadAsWritten, StepLevel DEF CopyInv
<1> QED  BY <1>1, <1>2, PTL DEF LevelSpec

LEMMA InitLevelInv == LevelInit => LevelInv
<1> SUFFICES ASSUME LevelInit PROVE LevelInv
  OBVIOUS
<1>1. /\ Init /\ max_value = 0 /\ level = 0
      /\ \/ parsed_file_info.result # "SUCCESS" /\ file = << >>
         \/ /\ parsed_file_info.result = "SUCCESS"
            /\ CommentedFormat(parsed_file_info)
            /\ file \in [0..(CopiedSamples - 1) -> Samples]
  BY DEF LevelInit
<1>2. seen = {} /\ data = << >> /\ pc = "allocate"
  BY <1>1 DEF Init
<1>3. TypeOK
  BY <1>1, InitCopyInv DEF CopyInv
<1>4. FileOfInfo
  BY <1>1 DEF FileOfInfo
<1>5. LevelTypeOK
  <2>1. file \in [DOMAIN file -> Int \cup {NaN}]
    <3>1. CASE parsed_file_info.result # "SUCCESS"
      <4>1. file = << >> /\ DOMAIN file = {}
        BY <1>1, <3>1
      <4>2. \A S : << >> \in [{} -> S]
        OBVIOUS
      <4> QED  BY <4>1, <4>2
    <3>2. CASE parsed_file_info.result = "SUCCESS"
      <4>1. file \in [DOMAIN file -> Samples]
        BY <1>1, <3>2
      <4>2. \A k \in DOMAIN file : file[k] \in Int \cup {NaN}
        <5> TAKE k \in DOMAIN file
        <5>1. /\ IsInt => BytesPerSample \in 1..4
                          /\ file[k] \in 0..(Values[BytesPerSample] - 1)
              /\ ~IsInt => file[k] = NaN \/ file[k] \in Int
          BY <1>3, <1>4, <3>2, RawFacts
        <5>2. IsInt => Values[BytesPerSample] \in Nat
          BY <5>1, Sizes
        <5> QED  BY <5>1, <5>2
      <4> QED  BY <4>1, <4>2
    <3> QED  BY <3>1, <3>2
  <2> QED  BY <1>1, <1>3, <2>1, Range32 DEF LevelTypeOK
<1>6. CopyOfFile /\ Told
  BY <1>2 DEF CopyOfFile, Told
<1>7. LoudestSoFar
  <2>1. Magnitudes = {} /\ NumberMagnitudes = {}
    BY <1>2 DEF Magnitudes, NumberMagnitudes
  <2>2. IsLargest(0, {})
    BY DEF IsLargest
  <2>3. 0 \in Nat /\ AsF32(0) = 0
    BY NarrowFacts DEF AsF32
  <2> QED  BY <1>1, <2>1, <2>2, <2>3 DEF LoudestSoFar
<1> QED  BY <1>4, <1>5, <1>6, <1>7 DEF LevelInv

\* What of the file no step changes.
LEMMA FileSame ==
    ASSUME [LevelNext]_<<vars, values>>
    PROVE  /\ UNCHANGED <<file, parsed_file_info>>
           /\ BytesPerSample' = BytesPerSample /\ CopiedSamples' = CopiedSamples
           /\ Samples' = Samples /\ IsInt' = IsInt
<1>1. UNCHANGED file
  BY DEF LevelNext, OtherStep, MeasureSample, ReportLevel, values
<1>2. UNCHANGED parsed_file_info
  BY LevelSteps, StepSame
<1> QED  BY <1>1, <1>2, SameFile DEF Samples, IsInt, BytesPerSample

\* The sample copied is one of the file.
LEMMA CopiedInFile ==
    ASSUME CopyInv, pc = "deinterleave", i < parsed_file_info.size
    PROVE  Done \in 0..(CopiedSamples - 1)
<1> DEFINE B == BytesPerSample   size == parsed_file_info.size   x == size + B - 1
<1>1. /\ B \in Nat /\ B > 0 /\ size \in Nat /\ Done \in Nat /\ i = B * Done
      /\ i + B = B * (Done + 1) /\ i \in Nat /\ i < size
  BY LoopFacts
<1>2. CopiedSamples = x \div B
  BY DEF CopiedSamples
<1> HIDE DEF B, size
<1>3. x \in Nat /\ Done + 1 \in Nat /\ x >= B * (Done + 1)
  BY <1>1
<1> HIDE DEF x
<1>4. x \div B >= Done + 1 /\ x \div B \in Nat
  BY <1>1, <1>3, QuotientBelow, Division
<1> QED  BY <1>1, <1>2, <1>4

\* A sample that is measured is one of a file that was parsed.
LEMMA MeasuredElement ==
    ASSUME CopyInv, LevelInv, [LevelNext]_<<vars, values>>,
           MeasureSample, pc' = "analyze"
    PROVE  /\ UNCHANGED data
           /\ parsed_file_info.result = "SUCCESS"
           /\ prepared_data.data_type = "INT" <=> IsInt
           /\ \E e \in [element : Elements, as : {"i32", "f32"}] :
                 /\ seen' = seen \cup {e} /\ e.element.sample \in DOMAIN file
                 /\ max_value' = MaxWith(ValueOf(e.element.sample))
<1>1. [Next]_vars
  BY LevelSteps
<1>2. TypeOK /\ TypeOK' /\ ReadAsWritten' /\ FileOfInfo /\ CopyOfFile
  BY <1>1, StepTypeOK, StepReadAsWritten DEF CopyInv, LevelInv
<1> DEFINE n == sample + channel * SampleCountChannel   e == Read(n)
<1>4. /\ pc = "analyze" /\ n \in DOMAIN data /\ UNCHANGED data
      /\ seen' = seen \cup {e} /\ max_value' = MaxWith(ValueOf(data[n].sample))
  BY DEF MeasureSample, AnalyzeSample, Trap, SameCopy, Read
<1>5. /\ Accepted
      /\ ReadMember(prepared_data) = ReadMember(parsed_file_info)
  BY <1>4, ReadFacts
<1>6. prepared_data.data_type = "INT" <=> IsInt
  BY <1>5 DEF ReadMember, IsInt
<1>7. e.element = data[n]
  BY DEF Read
<1> HIDE DEF e, n
<1>8. e \in [element : Elements, as : {"i32", "f32"}]
  BY <1>2, <1>4 DEF TypeOK
<1>9. e.element # Zero
  <2>1. UNCHANGED parsed_file_info
    BY FileSame
  <2>2. parsed_file_info.bits_per_sample \in Depths
    BY <1>2, <1>5 DEF FileOfInfo, Accepted, CommentedFormat, Depths
  <2> QED  BY <1>2, <1>4, <2>1, <2>2 DEF ReadAsWritten
<1>10. data[n].sample \in DOMAIN file
  BY <1>2, <1>4, <1>7, <1>9 DEF CopyOfFile
<1> QED  BY <1>4, <1>5, <1>6, <1>7, <1>8, <1>10 DEF Accepted

\* Every other step leaves the maximum alone.
LEMMA NotMeasured ==
    ASSUME [LevelNext]_<<vars, values>>, ~(MeasureSample /\ pc' = "analyze")
    PROVE  UNCHANGED <<max_value, seen>>
<1>1. CASE MeasureSample
  BY <1>1 DEF MeasureSample, AnalyzeSample, Trap
<1>2. CASE ~MeasureSample
  BY <1>2 DEF LevelNext, OtherStep, ReportLevel, vars, values, Reject, Allocate,
         Deinterleave, FinishCopy, Measure, NextChannel, NextChannelBy, Report,
         UnloadPreparedData
<1> QED  BY <1>1, <1>2

LEMMA StepFileOfInfo ==
    ASSUME LevelInv, [LevelNext]_<<vars, values>>
    PROVE  FileOfInfo'
<1>1. CommentedFormat(parsed_file_info)' = CommentedFormat(parsed_file_info)
  BY FileSame DEF CommentedFormat
<1> QED  BY <1>1, FileSame DEF LevelInv, FileOfInfo

LEMMA StepCopyOfFile ==
    ASSUME CopyInv, LevelInv, [LevelNext]_<<vars, values>>
    PROVE  CopyOfFile'
<1>1. CopyOfFile /\ FileOfInfo /\ TypeOK /\ Copying /\ UNCHANGED file /\ [Next]_vars
  BY FileSame, LevelSteps DEF LevelInv, CopyInv
<1>2. \A s \in seen' : s.element.sample \in DOMAIN file
  <2>1. CASE MeasureSample /\ pc' = "analyze"
    BY <1>1, <2>1, MeasuredElement DEF CopyOfFile
  <2>2. CASE ~(MeasureSample /\ pc' = "analyze")
    BY <1>1, <2>2, NotMeasured DEF CopyOfFile
  <2> QED  BY <2>1, <2>2
<1>3. \A n \in DOMAIN data' : data'[n] # Zero => data'[n].sample \in DOMAIN file
  <2>1. CASE Deinterleave
    <3>1. CASE Traps
      BY <1>1, <3>1 DEF Traps, CopyOfFile
    <3>2. CASE Copies
      <4>1. Done \in 0..(CopiedSamples - 1) /\ Accepted
        BY <1>1, <3>2, CopiedInFile DEF Copies, Copying
      <4>2. DOMAIN file = 0..(CopiedSamples - 1)
        BY <1>1, <4>1 DEF FileOfInfo, Accepted
      <4>3. Sample(Done, WrittenMember(parsed_file_info)).sample = Done
        BY DEF Sample
      <4> QED  BY <1>1, <3>2, <4>1, <4>2, <4>3 DEF Copies, CopyOfFile
    <3> QED  BY <1>1, <2>1, <3>1, <3>2, DeinterleaveSteps
  <2>2. CASE Allocate
    <3>1. \/ data' = data
          \/ data' = [n \in 0..(mapped' \div 4 - 1) |-> Zero]
      BY <2>2 DEF Allocate
    <3> QED  BY <1>1, <3>1 DEF CopyOfFile
  <2>3. CASE UnloadPreparedData
    <3>1. DOMAIN data' = {}
      BY <2>3 DEF UnloadPreparedData
    <3> QED  BY <3>1
  <2>4. CASE ~Deinterleave /\ ~Allocate /\ ~UnloadPreparedData
    BY <1>1, <2>4, CopySame DEF CopyOfFile
  <2> QED  BY <2>1, <2>2, <2>3, <2>4
<1> QED  BY <1>1, <1>2, <1>3 DEF CopyOfFile

LEMMA ValuesSame ==
    ASSUME [LevelNext]_<<vars, values>>
    PROVE  /\ Magnitudes' = {Magnitude(Scaled(Raw(e))) : e \in seen'}
           /\ NumberMagnitudes' = {Magnitude(Raw(e)) : e \in {s \in seen' : Raw(s) # NaN}}
           /\ \A x : AsF32(x)' = AsF32(x)
<1>1. UNCHANGED file /\ BytesPerSample' = BytesPerSample
  BY FileSame
<1>2. \A e : Raw(e)' = Raw(e)
  BY <1>1 DEF Raw
<1>3. \A x : Scaled(x)' = Scaled(x)
  BY <1>1 DEF Scaled, ToSigned
<1>4. Magnitudes' = {Magnitude(Scaled(Raw(e))) : e \in seen'}
  BY <1>1, <1>2, <1>3 DEF Magnitudes, Raw, Scaled, ToSigned, Magnitude
<1>5. NumberMagnitudes' = {Magnitude(Raw(e)) : e \in {s \in seen' : Raw(s) # NaN}}
  BY <1>1, <1>2 DEF NumberMagnitudes, Raw, Magnitude
<1> QED  BY <1>1, <1>4, <1>5 DEF AsF32, Narrow

\* The magnitudes of the samples read so far are numbers.
LEMMA SeenNumbers ==
    ASSUME TypeOK, FileOfInfo, CopyOfFile, parsed_file_info.result = "SUCCESS"
    PROVE  /\ IsInt => Magnitudes \in SUBSET Nat
           /\ ~IsInt => NumberMagnitudes \in SUBSET Nat
<1>1. \A e \in seen : e.element.sample \in DOMAIN file
  BY DEF CopyOfFile
<1>2. ASSUME IsInt, NEW e \in seen PROVE Magnitude(Scaled(Raw(e))) \in Nat
  <2>1. Magnitude(Scaled(file[e.element.sample])) \in 0..(I32Max + 1)
    BY <1>1, <1>2, IntMeasured
  <2> QED  BY <2>1, Range32 DEF Raw
<1>3. ASSUME ~IsInt, NEW e \in seen, Raw(e) # NaN PROVE Magnitude(Raw(e)) \in Nat
  <2>1. Raw(e) \in Int
    BY <1>1, <1>3, RawFacts DEF Raw
  <2> QED  BY <2>1 DEF Magnitude
<1> QED  BY <1>2, <1>3 DEF Magnitudes, NumberMagnitudes

LEMMA AsF32Facts ==
    /\ \A x \in Nat : AsF32(x) \in Nat
    /\ \A x, y \in Nat : x <= y => AsF32(x) <= AsF32(y)
  BY NarrowFacts DEF AsF32

LEMMA StepLoudest ==
    ASSUME CopyInv, LevelInv, [LevelNext]_<<vars, values>>
    PROVE  LoudestSoFar'
<1>1. /\ TypeOK /\ FileOfInfo /\ CopyOfFile /\ LoudestSoFar
      /\ max_value \in Nat /\ IsInt' = IsInt
  BY FileSame DEF CopyInv, LevelInv, LevelTypeOK
<1>2. /\ Magnitudes' = {Magnitude(Scaled(Raw(e))) : e \in seen'}
      /\ NumberMagnitudes' = {Magnitude(Raw(e)) : e \in {s \in seen' : Raw(s) # NaN}}
      /\ \A x : AsF32(x)' = AsF32(x)
  BY ValuesSame
<1>3. SUFFICES /\ IsInt => IsLargest(max_value', Magnitudes')
               /\ ~IsInt => \E m \in Nat : /\ IsLargest(m, NumberMagnitudes')
                                           /\ max_value' = AsF32(m)
  BY <1>1, <1>2 DEF LoudestSoFar
<1>4. CASE ~(MeasureSample /\ pc' = "analyze")
  <2>1. max_value' = max_value /\ seen' = seen
    BY <1>4, NotMeasured
  <2>2. Magnitudes' = Magnitudes /\ NumberMagnitudes' = NumberMagnitudes
    BY <1>2, <2>1 DEF Magnitudes, NumberMagnitudes
  <2> QED  BY <1>1, <2>1, <2>2 DEF LoudestSoFar
<1>5. CASE MeasureSample /\ pc' = "analyze"
  <2>1. /\ parsed_file_info.result = "SUCCESS"
        /\ prepared_data.data_type = "INT" <=> IsInt
    BY <1>5, MeasuredElement
  <2>2. PICK e \in [element : Elements, as : {"i32", "f32"}] :
            /\ seen' = seen \cup {e} /\ e.element.sample \in DOMAIN file
            /\ max_value' = MaxWith(ValueOf(e.element.sample))
    BY <1>5, MeasuredElement
  <2> DEFINE k == e.element.sample
  <2>3. Raw(e) = file[k] /\ k \in DOMAIN file /\ max_value' = MaxWith(ValueOf(k))
    BY <2>2 DEF Raw
  <2> HIDE DEF k
  <2>4. CASE IsInt
    <3> DEFINE y == Magnitude(Scaled(Raw(e)))
    <3>1. y \in 0..(I32Max + 1) /\ max_value' = IF y > max_value THEN y ELSE max_value
      BY <1>1, <2>1, <2>3, <2>4, IntMeasured
    <3>2. Magnitudes' = Magnitudes \cup {y}
      BY <1>2, <2>2 DEF Magnitudes
    <3> HIDE DEF y
    <3>3. Magnitudes \in SUBSET Nat /\ IsLargest(max_value, Magnitudes)
      BY <1>1, <2>1, <2>4, SeenNumbers DEF LoudestSoFar
    <3>4. y \in Nat
      BY <3>1, Range32
    <3>5. IsLargest(IF y > max_value THEN y ELSE max_value, Magnitudes \cup {y})
      BY <1>1, <3>3, <3>4, LargestWith
    <3> QED  BY <2>4, <3>1, <3>2, <3>5
  <2>5. CASE ~IsInt
    <3>1. PICK m \in Nat : IsLargest(m, NumberMagnitudes) /\ max_value = AsF32(m)
      BY <1>1, <2>5 DEF LoudestSoFar
    <3>2. NumberMagnitudes \in SUBSET Nat
      BY <1>1, <2>1, <2>5, SeenNumbers
    <3>3. CASE Raw(e) = NaN
      <4>1. max_value' = max_value
        BY <1>1, <2>1, <2>3, <2>5, <3>3, FloatMeasured
      <4>2. NumberMagnitudes' = NumberMagnitudes
        BY <1>2, <2>2, <3>3 DEF NumberMagnitudes
      <4> QED  BY <2>5, <3>1, <4>1, <4>2
    <3>4. CASE Raw(e) # NaN
      <4> DEFINE y == Magnitude(Raw(e))   loudest == IF y > m THEN y ELSE m
      <4>1. /\ y \in Nat
            /\ max_value' = IF AsF32(y) > max_value THEN AsF32(y) ELSE max_value
        BY <1>1, <2>1, <2>3, <2>5, <3>4, FloatMeasured
      <4>2. NumberMagnitudes' = NumberMagnitudes \cup {y}
        BY <1>2, <2>2, <3>4 DEF NumberMagnitudes
      <4> HIDE DEF y
      <4>3. IsLargest(loudest, NumberMagnitudes \cup {y})
        BY <3>1, <3>2, <4>1, LargestWith
      <4>4. loudest \in Nat /\ max_value' = AsF32(loudest)
        <5>1. y > m => AsF32(y) >= AsF32(m)
          BY <4>1, AsF32Facts
        <5>2. y <= m => AsF32(y) <= AsF32(m)
          BY <4>1, AsF32Facts
        <5>3. AsF32(y) \in Nat /\ AsF32(m) \in Nat
          BY <4>1, AsF32Facts
        <5>4. CASE y > m
          BY <3>1, <4>1, <5>1, <5>3, <5>4
        <5>5. CASE y <= m
          BY <3>1, <4>1, <5>2, <5>3, <5>5
        <5> QED  BY <4>1, <5>4, <5>5
      <4> HIDE DEF loudest
      <4> QED  BY <2>5, <4>2, <4>3, <4>4
    <3> QED  BY <3>3, <3>4
  <2> QED  BY <2>4, <2>5
<1> QED  BY <1>4, <1>5

\* What is reported of a file that was measured.
LEMMA ReportedLevel ==
    ASSUME CopyInv, LevelInv, ReportLevel
    PROVE  level' = IF IsInt THEN max_value ELSE F32ToDb(max_value)
<1>1. /\ pc = "analyze" /\ max_value \in Nat
      /\ IsInt => max_value <= I32Max + 1
      /\ level' = IF prepared_data.data_type = "INT" THEN I32ToDb(ToI32(max_value))
                                                     ELSE F32ToDb(max_value)
  BY DEF ReportLevel, Report, LevelInv, LevelTypeOK, IsInt
<1>2. ReadMember(prepared_data) = ReadMember(parsed_file_info)
  BY <1>1, ReadFacts
<1>3. prepared_data.data_type = "INT" <=> IsInt
  BY <1>2 DEF ReadMember, IsInt
<1>4. IsInt => I32ToDb(ToI32(max_value)) = max_value
  BY <1>1, CastFacts, Range32
<1> QED  BY <1>1, <1>3, <1>4

LEMMA StepTold ==
    ASSUME CopyInv, LevelInv, [LevelNext]_<<vars, values>>
    PROVE  Told'
<1>1. Told /\ IsInt' = IsInt
  BY FileSame DEF LevelInv
<1>2. F32ToDb(max_value)' = F32ToDb(max_value')
  BY DEF F32ToDb
<1>3. CASE ReportLevel
  <2>1. max_value' = max_value
    BY <1>3 DEF ReportLevel
  <2> QED  BY <1>1, <1>2, <1>3, <2>1, ReportedLevel DEF Told
<1>4. CASE ~ReportLevel
  <2>1. /\ pc' \in {"unload", "done"} => pc \in {"unload", "done"} /\ max_value' = max_value
        /\ level' = level
    BY <1>4 DEF LevelNext, OtherStep, MeasureSample, vars, values, Reject, Abort, Allocate,
           Trap, Deinterleave, FinishCopy, Measure, AnalyzeSample, NextChannel,
           NextChannelBy, UnloadPreparedData
  <2> QED  BY <1>1, <1>2, <2>1 DEF Told
<1> QED  BY <1>3, <1>4

LEMMA StepLevelTypeOK ==
    ASSUME CopyInv, LevelInv, [LevelNext]_<<vars, values>>
    PROVE  LevelTypeOK'
<1>1. /\ TypeOK /\ LevelTypeOK /\ FileOfInfo /\ TypeOK' /\ IsInt' = IsInt /\ file' = file
  BY FileSame, LevelSteps, StepTypeOK DEF CopyInv, LevelInv
<1>2. file' \in [DOMAIN file' -> Int \cup {NaN}]
  BY <1>1 DEF LevelTypeOK
<1>3. max_value' \in Nat /\ (IsInt => max_value' <= I32Max + 1)
  <2>1. max_value \in Nat /\ (IsInt => max_value <= I32Max + 1)
    BY <1>1 DEF LevelTypeOK, IsInt
  <2>2. CASE ~(MeasureSample /\ pc' = "analyze")
    BY <2>1, <2>2, NotMeasured
  <2>3. CASE MeasureSample /\ pc' = "analyze"
    <3>1. /\ parsed_file_info.result = "SUCCESS"
          /\ prepared_data.data_type = "INT" <=> IsInt
          /\ \E k \in DOMAIN file : max_value' = MaxWith(ValueOf(k))
      BY <2>3, MeasuredElement
    <3>2. PICK k \in DOMAIN file : max_value' = MaxWith(ValueOf(k))
      BY <3>1
    <3>3. CASE IsInt
      <4>1. /\ Magnitude(Scaled(file[k])) \in 0..(I32Max + 1)
            /\ max_value' = IF Magnitude(Scaled(file[k])) > max_value
                            THEN Magnitude(Scaled(file[k])) ELSE max_value
        BY <1>1, <3>1, <3>2, <3>3, IntMeasured
      <4> QED  BY <2>1, <3>3, <4>1, Range32
    <3>4. CASE ~IsInt
      BY <1>1, <2>1, <3>1, <3>2, <3>4, FloatMeasured
    <3> QED  BY <3>3, <3>4
  <2> QED  BY <2>2, <2>3
<1>4. level' \in Nat
  <2>1. CASE ReportLevel
    BY <1>1, <2>1, ReportedLevel DEF LevelTypeOK, F32ToDb
  <2>2. CASE ~ReportLevel
    <3>1. level' = level
      BY <2>2 DEF LevelNext, OtherStep, MeasureSample, values
    <3> QED  BY <1>1, <3>1 DEF LevelTypeOK
  <2> QED  BY <2>1, <2>2
<1> QED  BY <1>1, <1>2, <1>3, <1>4 DEF LevelTypeOK, IsInt, I32Max, U32, Values

LEMMA LevelInvariant == LevelSpec => [](CopyInv /\ LevelInv)
<1>1. CopyInv /\ LevelInv /\ [LevelNext]_<<vars, values>> => LevelInv'
  BY StepLevelTypeOK, StepFileOfInfo, StepCopyOfFile, StepLoudest, StepTold
     DEF LevelInv
<1> QED  BY <1>1, InitLevelInv, LevelCopyInv, PTL DEF LevelSpec

\* The values of the file stay what they are declared to be, and the maximum of a
\* file of integers never exceeds the magnitude of the least i32 (main.c:145).
THEOREM LevelTypeCorrect == LevelSpec => []LevelTypeOK
<1>1. LevelInv => LevelTypeOK  BY DEF LevelInv
<1> QED  BY <1>1, LevelInvariant, PTL

\* For every width of a byte and every sample: what the shifts leave in an element
\* is the sample, scaled to full scale (prepare_data.c:54-92).
THEOREM SamplesScaledExactly == LevelSpec => []ScaledExactly
<1>1. CopyInv /\ LevelInv => ScaledExactly
  <2> SUFFICES ASSUME CopyInv, LevelInv, IsInt, NEW n \in DOMAIN data, data[n] # Zero
               PROVE  ValueOf(data[n].sample) = Scaled(file[data[n].sample])
    BY DEF ScaledExactly, IsInt
  <2>1. TypeOK /\ Mapping /\ FileOfInfo /\ CopyOfFile
    BY DEF CopyInv, LevelInv
  <2>2. mapped \in Nat /\ mapped # 0
    BY <2>1 DEF TypeOK, Mapping
  <2>3. parsed_file_info.result = "SUCCESS"
    BY <2>1, <2>2 DEF Mapping, Accepted
  <2>4. data[n].sample \in DOMAIN file
    BY <2>1 DEF CopyOfFile
  <2> QED  BY <2>1, <2>3, <2>4, IntMeasured
<1> QED  BY <1>1, LevelInvariant, PTL

\* What the level is taken over, when it is reported.
LEMMA ReportedFacts ==
    ASSUME CopyInv, LevelInv, Reported
    PROVE  /\ parsed_file_info.result = "SUCCESS"
           /\ KeptSamples = {e.element.sample : e \in seen}
           /\ level = IF IsInt THEN max_value ELSE F32ToDb(max_value)
<1>1. TypeOK /\ LevelCoversFile /\ Told
  BY DEF CopyInv, LevelInv
<1>2. parsed_file_info.size > 0 /\ parsed_file_info.size \in Nat
  BY <1>1, FileFacts DEF Reported, HasSamples
<1>3. parsed_file_info.result = "SUCCESS"
  BY <1>1, <1>2, InfosAssumption DEF TypeOK
<1> QED  BY <1>1, <1>3 DEF Reported, LevelCoversFile, KeptSamples, Told

\* Of every file of integers the loudest sample is reported, also the least i32.
THEOREM LoudestIsReported == LevelSpec => []LoudestReported
<1>1. CopyInv /\ LevelInv => LoudestReported
  <2> SUFFICES ASSUME CopyInv, LevelInv, Reported, IsInt
               PROVE  IsLargest(level, {Magnitude(Scaled(file[k])) : k \in KeptSamples})
    BY DEF LoudestReported, IsInt
  <2>1. /\ KeptSamples = {e.element.sample : e \in seen}
        /\ level = max_value
    BY ReportedFacts
  <2>2. IsLargest(max_value, Magnitudes)
    BY DEF LevelInv, LoudestSoFar
  <2>3. Magnitudes = {Magnitude(Scaled(file[k])) : k \in KeptSamples}
    BY <2>1 DEF Magnitudes, Raw
  <2> QED  BY <2>1, <2>2, <2>3
<1> QED  BY <1>1, LevelInvariant, PTL

\* Of every file of floats the loudest number is reported, wherever NaN stands.
THEOREM NumbersAreReported == LevelSpec => []NumbersReported
<1>1. CopyInv /\ LevelInv => NumbersReported
  <2> DEFINE numbers == {Magnitude(file[k]) : k \in Numbers}
  <2> SUFFICES ASSUME CopyInv, LevelInv, Reported, ~IsInt
               PROVE  \E loudest \in {0} \cup numbers :
                         /\ IsLargest(loudest, numbers)
                         /\ level = IF BytesPerSample = 8 /\ loudest > LargestF32
                                    THEN Infinity
                                    ELSE IF loudest > FloatThreshold THEN loudest ELSE 0
    BY DEF NumbersReported, IsInt
  <2>1. /\ KeptSamples = {e.element.sample : e \in seen}
        /\ level = F32ToDb(max_value)
    BY ReportedFacts
  <2>2. PICK m \in Nat : IsLargest(m, NumberMagnitudes) /\ max_value = AsF32(m)
    BY DEF LevelInv, LoudestSoFar
  <2>3. NumberMagnitudes = numbers
    BY <2>1 DEF NumberMagnitudes, Numbers, Raw
  <2> HIDE DEF numbers
  <2>4. m \in {0} \cup numbers /\ IsLargest(m, numbers)
    BY <2>2, <2>3 DEF IsLargest
  <2>5. /\ SmallestF32 \in Nat /\ FloatThreshold \in Nat /\ LargestF32 \in Nat
        /\ Infinity \in Nat /\ 0 < SmallestF32 /\ SmallestF32 < FloatThreshold
        /\ FloatThreshold < LargestF32 /\ LargestF32 < Infinity /\ NaN \notin Int
    BY FloatAssumption
  <2>6. AsF32(m) = IF BytesPerSample = 8
                   THEN IF m > LargestF32 THEN Infinity
                        ELSE IF m < SmallestF32 THEN 0 ELSE m
                   ELSE m
    BY NarrowFacts DEF AsF32
  <2>7. AsF32(m) \in Nat /\ AsF32(m) # NaN
    BY <2>5, AsF32Facts
  <2>8. level = IF AsF32(m) > FloatThreshold THEN AsF32(m) ELSE 0
    BY <2>1, <2>2, <2>7 DEF F32ToDb
  <2>9. level = IF BytesPerSample = 8 /\ m > LargestF32 THEN Infinity
                ELSE IF m > FloatThreshold THEN m ELSE 0
    BY <2>5, <2>6, <2>8
  <2> QED  BY <2>4, <2>9
<1> QED  BY <1>1, LevelInvariant, PTL

-----------------------------------------------------------------------------
(* The loops end.                                                          *)

\* What is left to copy, and to read: the frames of a channel and a step to the
\* next one.
LeftToCopy ==
    IF pc \in {"allocate", "deinterleave"} /\ i < parsed_file_info.size
    THEN parsed_file_info.size - i ELSE 0

Readings == IF Accepted /\ Ch > 0 THEN Ch * (Frames + 1) ELSE 0

LeftToRead ==
    IF pc \in {"allocate", "deinterleave", "measure"} THEN Readings
    ELSE IF pc = "analyze" THEN Readings - (channel * (Frames + 1) + sample)
    ELSE 0

StagesLeft ==
    IF pc = "allocate" THEN 5 ELSE IF pc = "deinterleave" THEN 4
    ELSE IF pc = "measure" THEN 3 ELSE IF pc = "analyze" THEN 2
    ELSE IF pc = "unload" THEN 1 ELSE 0

StepsLeft == LeftToCopy + LeftToRead + StagesLeft
\* While the planes are read, no more is counted than there is to read.
LEMMA ReadingFacts ==
    ASSUME CopyInv
    PROVE  /\ Readings \in Nat
           /\ pc = "analyze" =>
                 /\ Accepted /\ Ch > 0 /\ Frames \in Nat /\ SampleCountChannel = Frames
                 /\ prepared_data.channels = Ch /\ Readings = Ch * (Frames + 1)
                 /\ Ch \in Nat /\ channel \in Nat /\ sample \in Nat
                 /\ channel * (Frames + 1) \in Nat
                 /\ channel * (Frames + 1) + sample <= Readings
<1>1. TypeOK /\ Reading
  BY DEF CopyInv
<1>2. Accepted /\ Ch > 0 => Frames \in Nat /\ Ch \in Nat
  BY <1>1, FileFacts, Division DEF Accepted, Frames, Ch
<1>3. Readings \in Nat
  BY <1>2 DEF Readings
<1>4. ASSUME pc = "analyze"
      PROVE  /\ Accepted /\ Ch > 0 /\ Frames \in Nat /\ SampleCountChannel = Frames
             /\ prepared_data.channels = Ch /\ Readings = Ch * (Frames + 1)
             /\ Ch \in Nat /\ channel \in Nat /\ sample \in Nat
             /\ channel * (Frames + 1) \in Nat
             /\ channel * (Frames + 1) + sample <= Readings
  <2>1. /\ Accepted /\ Ch \in Nat /\ Ch > 0 /\ Frames \in Nat
        /\ SampleCountChannel = Frames /\ prepared_data.channels = Ch
    BY <1>4, ReadFacts
  <2>2. /\ channel \in Nat /\ sample \in Nat /\ channel <= Ch /\ sample <= Frames
        /\ channel = Ch => sample = 0
    BY <1>1, <1>4, <2>1 DEF TypeOK, Reading
  <2>3. Readings = Ch * (Frames + 1)
    BY <2>1 DEF Readings
  <2> HIDE DEF Readings
  <2>4. channel * (Frames + 1) \in Nat
    BY <2>1, <2>2
  <2>5. CASE channel = Ch
    BY <2>1, <2>2, <2>3, <2>5
  <2>6. CASE channel # Ch
    <3>1. (channel + 1) * (Frames + 1) <= Ch * (Frames + 1)
      <4>1. channel + 1 <= Ch
        BY <2>1, <2>2, <2>6
      <4> QED  BY <4>1, <2>1, <2>2
    <3>2. (channel + 1) * (Frames + 1) = channel * (Frames + 1) + (Frames + 1)
      BY <2>1, <2>2
    <3> QED  BY <3>1, <3>2, <2>1, <2>2, <2>3, <2>4
  <2> QED  BY <2>1, <2>2, <2>3, <2>4, <2>5, <2>6
<1> QED  BY <1>3, <1>4

LEMMA LeftFacts ==
    ASSUME CopyInv
    PROVE  LeftToCopy \in Nat /\ LeftToRead \in Nat /\ StagesLeft \in Nat
<1>1. parsed_file_info.size \in Nat /\ i \in Nat
  BY FileFacts DEF CopyInv, TypeOK
<1>2. LeftToCopy \in Nat
  BY <1>1 DEF LeftToCopy
<1>3. LeftToRead \in Nat
  BY ReadingFacts DEF LeftToRead
<1> QED  BY <1>2, <1>3 DEF StagesLeft

LEMMA LessOfSums ==
    ASSUME NEW a \in Int, NEW b \in Int, NEW c \in Int,
           NEW x \in Int, NEW y \in Int, NEW z \in Int,
           x <= a, y <= b, z <= c, x < a \/ y < b \/ z < c
    PROVE  x + y + z < a + b + c
  OBVIOUS

LEMMA StepCounts ==
    ASSUME CopyInv, Next
    PROVE  StepsLeft' < StepsLeft
<1>1. TypeOK /\ Reading /\ Returned /\ Copying
  BY DEF CopyInv
<1>2. /\ LeftToCopy \in Nat /\ LeftToRead \in Nat /\ StagesLeft \in Nat /\ Readings \in Nat
  BY LeftFacts, ReadingFacts
<1>3. /\ parsed_file_info' = parsed_file_info /\ BytesPerSample' = BytesPerSample
      /\ Readings' = Readings /\ Frames' = Frames
  BY StepSame, SameFile DEF Readings
<1>4. i \in Nat /\ parsed_file_info.size \in Nat
  BY <1>1, FileFacts DEF TypeOK
<1> DEFINE copy == LeftToCopy
           read == LeftToRead
           stages == StagesLeft
<1>a. StepsLeft = copy + read + stages
  BY DEF StepsLeft
<1>b. StepsLeft' = copy' + read' + stages'
  BY DEF StepsLeft
<1>c. ASSUME copy' \in Int, read' \in Int, stages' \in Int,
             copy' <= copy, read' <= read, stages' <= stages,
             copy' < copy \/ read' < read \/ stages' < stages
      PROVE  StepsLeft' < StepsLeft
  <2>1. copy \in Int /\ read \in Int /\ stages \in Int
    BY <1>2
  <2> HIDE DEF copy, read, stages
  <2> QED  BY <2>1, <1>a, <1>b, <1>c, LessOfSums
\* A step to another stage.
<1>5. ASSUME StagesLeft' < StagesLeft, LeftToCopy' <= LeftToCopy, LeftToCopy' \in Nat,
             LeftToRead' <= LeftToRead, LeftToRead' \in Nat, StagesLeft' \in Nat
      PROVE  StepsLeft' < StepsLeft
  BY <1>2, <1>5, <1>c
<1>6. ASSUME pc' \in {"trap", "abort", "done"}, StagesLeft > 0
      PROVE  StepsLeft' < StepsLeft
  <2>1. StagesLeft' = 0 /\ LeftToCopy' = 0 /\ LeftToRead' = 0
    BY <1>6 DEF StagesLeft, LeftToCopy, LeftToRead
  <2> QED  BY <2>1, <1>2, <1>6 DEF StepsLeft
<1>7. CASE Reject \/ Allocate \/ FinishCopy
  <2>1. /\ pc \in {"allocate", "deinterleave"} /\ i' = i
        /\ \/ pc' \in {"trap", "abort"}
           \/ pc = "allocate" /\ pc' = "deinterleave"
           \/ pc' = "measure"
    BY <1>7 DEF Reject, Allocate, FinishCopy, Trap, Abort
  <2>2. StagesLeft > 0
    BY <2>1 DEF StagesLeft
  <2>3. CASE pc' \in {"deinterleave", "measure"}
    <3>1. LeftToCopy' = LeftToCopy \/ LeftToCopy' = 0
      BY <2>1, <1>3 DEF LeftToCopy
    <3>2. LeftToRead' = LeftToRead
      BY <2>1, <2>3, <1>3 DEF LeftToRead
    <3>3. StagesLeft' < StagesLeft /\ StagesLeft' \in Nat
      BY <2>1, <2>3 DEF StagesLeft
    <3> QED  BY <3>1, <3>2, <3>3, <1>2, <1>5
  <2> QED  BY <2>1, <2>2, <2>3, <1>6
<1>8. CASE Deinterleave
  <2>1. CASE Traps
    <3>1. pc' = "trap" /\ StagesLeft > 0
      BY <2>1 DEF Traps, StagesLeft
    <3> QED  BY <3>1, <1>6
  <2>2. CASE Copies
    <3>1. /\ pc = "deinterleave" /\ pc' = "deinterleave" /\ i < parsed_file_info.size
          /\ i' = i + BytesPerSample
      BY <2>2 DEF Copies
    <3>2. BytesPerSample \in Nat /\ BytesPerSample > 0
      BY <3>1, LoopFacts
    <3>3. LeftToCopy' < LeftToCopy /\ LeftToCopy' \in Nat
      BY <3>1, <3>2, <1>3, <1>4 DEF LeftToCopy
    <3>4. LeftToRead' = LeftToRead /\ StagesLeft' = StagesLeft
      BY <3>1, <1>3 DEF LeftToRead, StagesLeft
    <3> QED  BY <3>3, <3>4, <1>2, <1>c
  <2> QED  BY <1>1, <1>8, <2>1, <2>2, DeinterleaveSteps
<1>9. CASE Measure
  <2>1. /\ pc = "measure" /\ channel' = channel /\ sample' = sample
        /\ channel = 0 /\ sample = 0
        /\ pc' = "trap" \/ (pc' = "analyze" /\ prepared_data.channels # 0)
    BY <1>1, <1>9 DEF Measure, Trap, Reading
  <2>2. StagesLeft > 0
    BY <2>1 DEF StagesLeft
  <2>3. CASE pc' = "analyze"
    <3>1. Accepted /\ Ch \in Nat /\ Ch > 0
      BY <1>1, <2>1, <2>3, FileFacts DEF Returned, Stages
    <3>2. Frames \in Nat
      BY <1>1, <3>1, FileFacts, Division DEF Accepted, Frames, Ch
    <3>3. LeftToRead' = LeftToRead
      BY <2>1, <2>3, <3>2, <1>2, <1>3 DEF LeftToRead
    <3>4. LeftToCopy' = 0 /\ StagesLeft' < StagesLeft /\ StagesLeft' \in Nat
      BY <2>1, <2>3 DEF LeftToCopy, StagesLeft
    <3> QED  BY <3>3, <3>4, <1>2, <1>5
  <2> QED  BY <2>1, <2>2, <2>3, <1>6
<1>10. CASE AnalyzeSample \/ NextChannel
  <2>1. pc = "analyze" /\ pc' \in {"analyze", "trap"}
    BY <1>10 DEF AnalyzeSample, NextChannel, NextChannelBy, Trap
  <2>2. StagesLeft > 0
    BY <2>1 DEF StagesLeft
  <2>3. /\ Frames \in Nat /\ SampleCountChannel = Frames
        /\ channel \in Nat /\ sample \in Nat /\ channel * (Frames + 1) \in Nat
        /\ channel * (Frames + 1) + sample <= Readings
    BY <2>1, ReadingFacts
  <2>4. CASE pc' = "analyze"
    <3>1. \/ channel' = channel /\ sample' = sample + 1
          \/ channel' = channel + 1 /\ sample' = 0 /\ sample >= Frames
      BY <1>10, <2>3, <2>4 DEF AnalyzeSample, Trap, NextChannel, NextChannelBy
    <3>2. sample <= Frames
      BY <1>1, <2>1, <2>3 DEF Reading
    <3>3. (channel + 1) * (Frames + 1) = channel * (Frames + 1) + Frames + 1
      BY <2>3
    <3>4. channel' * (Frames + 1) + sample' = channel * (Frames + 1) + sample + 1
      BY <3>1, <3>2, <3>3, <2>3
    <3>5. LeftToRead' < LeftToRead /\ LeftToRead' \in Int
      BY <2>1, <2>3, <2>4, <3>4, <1>2, <1>3 DEF LeftToRead
    <3>6. LeftToCopy' = LeftToCopy /\ StagesLeft' = StagesLeft
      BY <2>1, <2>4 DEF LeftToCopy, StagesLeft
    <3> QED  BY <3>5, <3>6, <1>2, <1>c
  <2> QED  BY <2>1, <2>2, <2>4, <1>6
<1>11. CASE Report \/ UnloadPreparedData
  <2>1. \/ pc = "analyze" /\ pc' = "unload"
        \/ pc = "unload" /\ pc' = "done"
    BY <1>11 DEF Report, UnloadPreparedData
  <2>2. LeftToRead' = 0 /\ LeftToCopy' = 0 /\ StagesLeft' < StagesLeft /\ StagesLeft' \in Nat
    BY <2>1 DEF LeftToRead, LeftToCopy, StagesLeft
  <2> QED  BY <2>2, <1>2, <1>5
<1> QED  BY <1>7, <1>8, <1>9, <1>10, <1>11 DEF Next

\* Of no file do the loops go on for ever: what is left to copy and to read is a
\* natural number that every step makes smaller (prepare_data.c:48-115,
\* main.c:146-169).
THEOREM StagesCountDown ==
    Spec => [](StepsLeft \in Nat) /\ [][StepsLeft' < StepsLeft]_vars
<1>1. CopyInv => StepsLeft \in Nat
  BY LeftFacts DEF StepsLeft
<1>2. CopyInv /\ [Next]_vars => [StepsLeft' < StepsLeft]_vars
  BY StepCounts
<1> QED  BY <1>1, <1>2, CopyInvariant, PTL DEF Spec
=============================================================================

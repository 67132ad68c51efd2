----------------------------- MODULE ApiProofs -----------------------------
(***************************************************************************)
(* Proofs about two parts of the API server (internal/apiserver): the      *)
(* firehose (EventStream) and the way of a request to the node that serves *)
(* it (Requests).                                                          *)
(*                                                                         *)
(* The firehose is followed per node: the bus's buffer is the end of the   *)
(* node's log, what is on the way is in order behind what the client has,  *)
(* and what is in neither is accounted for, up to the client's cursor and  *)
(* up to each event on the way.                                            *)
(*                                                                         *)
(* A request carries what was decided of it: a role token was made where   *)
(* the caller is what it says, and what is about to be handled is where it *)
(* was meant to go.  Tables and pools may be as stale as they like.        *)
(***************************************************************************)
EXTENDS EventStream, Requests, SequenceTheorems, TLAPS

\* Most leaves are first-order; those that need more name SMTT.
\* The times are generous, so that no proof depends on how busy a machine is.
USE ZenonT(60)

-----------------------------------------------------------------------------
(* Part 1: the firehose *)

\* Events as far as the proof is concerned, and event k of node n's present run.
Evt == Sources \X Nat \X Nat
Ev(n, k) == <<n, run[n], k>>

\* The events that are accounted for.
Accounted == got \cup gap \cup dropped

StreamTypes ==
    /\ run \in [Sources -> Nat] /\ seq \in [Sources -> Nat] /\ last \in [Sources -> Nat]
    /\ spc \in [Sources -> {"off", "replay", "subscribe", "live"}]
    /\ ring \in [Sources -> Seq(Evt)] /\ chan \in [Sources -> Seq(Evt)] /\ wire \in [Sources -> Seq(Evt)]
    /\ cursor \in Evt \cup {NoCursor} /\ since \in Evt \cup {NoCursor}

\* The end of a run: a sequence with the last events up to number q.
Ending(s, n, r, q) ==
    /\ s \in Seq(Evt) /\ Len(s) <= q
    /\ \A i \in 1 .. Len(s) : s[i] = <<n, r, q - Len(s) + i>>

Rising(s) == \A i, j \in 1 .. Len(s) : i < j => s[i][3] < s[j][3]

\* The buffer is the end of the node's run.
RingInv(n) == Ending(ring[n], n, run[n], seq[n])

\* What is on the way is newer than what the client has, and in order; what is
\* on the way from an open stream is of the node's present run.
WayInv(n) ==
    LET way == Range(wire[n]) \cup Range(chan[n]) IN
    /\ Rising(wire[n]) /\ Rising(chan[n])
    /\ \A d \in Range(wire[n]), e \in Range(chan[n]) : d[3] < e[3]
    /\ \A e \in way : e[1] = n /\ e[2] <= run[n] /\ e[3] > last[n]
    /\ spc[n] # "off" => last[n] <= seq[n] /\ \A e \in way : e[2] = run[n] /\ e[3] <= seq[n]
    /\ spc[n] # "live" => chan[n] = <<>>
    /\ spc[n] = "replay" => wire[n] = <<>> /\ last[n] = 0

\* Until a stream backfills, the buffer has what is neither accounted for nor on
\* the way; behind what is on the way nothing is missing.
HeldInv(n) ==
    /\ \A k \in 1 .. seq[n] :
          \/ Ev(n, k) \in Accounted \cup Range(wire[n]) \cup Range(chan[n])
          \/ spc[n] \in {"off", "replay"} /\ k > seq[n] - Len(ring[n])
    /\ \A e \in Range(wire[n]) : e[2] = run[n] =>
          \A k \in 1 .. e[3] : Ev(n, k) \in Accounted \cup Range(wire[n])

\* A client with cursor x has, or can account for, what x's node published before.
CursorInv(x) ==
    x # NoCursor =>
        /\ x[2] <= run[x[1]]
        /\ x[2] = run[x[1]] => \A k \in 1 .. x[3] : Ev(x[1], k) \in Accounted

\* The peers' streams are opened after the entry node's own.
PeersInv ==
    /\ \A n \in Sources, k \in Nat : <<n, k>> \in seen => k <= last[n]
    /\ spc[Entry] # "live" => \A m \in Sources : m # Entry => spc[m] = "off" /\ wire[m] = <<>>
    /\ spc[Entry] \in {"replay", "subscribe"} => \A m \in Sources : m # Entry => last[m] = 0
    /\ spc[Entry] = "off" => wire[Entry] = <<>>

FirehoseInv ==
    /\ StreamTypes
    /\ \A n \in Sources : RingInv(n) /\ WayInv(n) /\ HeldInv(n)
    /\ CursorInv(cursor) /\ CursorInv(since)
    /\ PeersInv

-----------------------------------------------------------------------------
\* What an ending contains.
LEMMA EndingHas ==
    ASSUME NEW n, NEW r, NEW q \in Nat, NEW s, Ending(s, n, r, q), NEW k \in Nat
    PROVE  <<n, r, k>> \in Range(s) <=> k > q - Len(s) /\ k <= q
<1>1. Len(s) \in Nat /\ DOMAIN s = 1 .. Len(s)  BY SMTT(60) DEF Ending
<1>2. ASSUME <<n, r, k>> \in Range(s) PROVE k > q - Len(s) /\ k <= q
  <2>1. PICK i \in 1 .. Len(s) : s[i] = <<n, r, k>>  BY <1>1, <1>2 DEF Range
  <2>2. s[i] = <<n, r, q - Len(s) + i>>  BY DEF Ending
  <2>. QED  BY SMTT(60), <1>1, <2>1, <2>2
<1>3. ASSUME k > q - Len(s), k <= q PROVE <<n, r, k>> \in Range(s)
  <2>1. k - (q - Len(s)) \in 1 .. Len(s) /\ q - Len(s) + (k - (q - Len(s))) = k  BY SMTT(60), <1>1, <1>3
  <2>2. s[k - (q - Len(s))] = <<n, r, k>>  BY <2>1 DEF Ending
  <2>. QED  BY <1>1, <2>1, <2>2 DEF Range
<1>. QED  BY <1>2, <1>3

\* The end of a sequence.
LEMMA Suffix ==
    ASSUME NEW T, NEW s \in Seq(T), NEW lo \in 1 .. Len(s)
    PROVE  /\ SubSeq(s, lo, Len(s)) \in Seq(T) /\ Len(SubSeq(s, lo, Len(s))) = Len(s) - lo + 1
           /\ \A i \in 1 .. Len(s) - lo + 1 : SubSeq(s, lo, Len(s))[i] = s[lo + i - 1]
<1>1. Len(s) \in Nat /\ lo \in Nat  BY SMTT(60)
<1>2. \A i \in lo .. Len(s) : s[i] \in T  BY SMTT(60)
<1>3. Len(SubSeq(s, lo, Len(s))) = Len(s) - lo + 1  BY SMTT(60)
<1>4. \A i \in 1 .. Len(s) - lo + 1 : SubSeq(s, lo, Len(s))[i] = s[lo + i - 1]  BY SMTT(60)
<1>5. SubSeq(s, lo, Len(s)) \in Seq(T)  BY SMTT(60), SubSeqProperties
<1>. QED  BY <1>3, <1>4, <1>5

\* Publish keeps the buffer an ending, and what it rotates out is in rotated.
LEMMA TrimIsEnding ==
    ASSUME EventStreamAssumption, NEW n \in Sources, NEW r \in Nat, NEW q \in Nat, NEW s, Ending(s, n, r, q)
    PROVE  LET t == Trim(Append(s, <<n, r, q + 1>>)) IN Ending(t, n, r, q + 1) /\ Len(t) \in 1 .. Len(s) + 1
<1>. DEFINE a == Append(s, <<n, r, q + 1>>)
<1>1. <<n, r, q + 1>> \in Evt  BY SMTT(60) DEF Evt
<1>2. s \in Seq(Evt) /\ Len(s) \in Nat /\ Len(s) <= q  BY SMTT(60) DEF Ending
<1>3. a \in Seq(Evt) /\ Len(a) = Len(s) + 1  BY SMTT(60), <1>1, <1>2
<1>4. \A i \in 1 .. Len(a) : a[i] = <<n, r, q + 1 - Len(a) + i>>
  <2>. TAKE i \in 1 .. Len(a)
  <2>1. CASE i = Len(s) + 1  BY SMTT(60), <1>2, <1>3, <2>1
  <2>2. CASE i \in 1 .. Len(s)
    <3>1. a[i] = s[i]  BY SMTT(60), <1>1, <1>2, <2>2
    <3>2. s[i] = <<n, r, q - Len(s) + i>>  BY <2>2 DEF Ending
    <3>3. q - Len(s) + i = q + 1 - Len(a) + i  BY SMTT(60), <1>2, <1>3, <2>2
    <3>. QED  BY <3>1, <3>2, <3>3
  <2>. QED  BY SMTT(60), <1>2, <1>3, <2>1, <2>2
<1>. SUFFICES Ending(Trim(a), n, r, q + 1) /\ Len(Trim(a)) \in 1 .. Len(s) + 1  OBVIOUS
<1>. HIDE DEF a
<1>5. CASE Len(a) > RingSize
  <2>. DEFINE lo == Len(a) - RingSize + 1
  <2>1. Trim(a) = SubSeq(a, lo, Len(a))  BY <1>5 DEF Trim
  <2>2. lo \in 1 .. Len(a) /\ RingSize \in Nat  BY SMTT(60), <1>3, <1>2, <1>5 DEF EventStreamAssumption
  <2>. DEFINE t == SubSeq(a, lo, Len(a))
  <2>3. t \in Seq(Evt) /\ Len(t) = Len(a) - lo + 1 /\ \A i \in 1 .. Len(a) - lo + 1 : t[i] = a[lo + i - 1]
    BY <1>3, <2>2, Suffix
  <2>6. Len(a) - lo + 1 = RingSize  BY SMTT(60), <1>3, <1>2, <2>2
  <2>. HIDE DEF t
  <2>4. ASSUME NEW i \in 1 .. RingSize PROVE a[lo + i - 1] = <<n, r, q + 1 - RingSize + i>>
    <3>1. lo + i - 1 \in 1 .. Len(a) /\ q + 1 - Len(a) + (lo + i - 1) = q + 1 - RingSize + i
      BY SMTT(60), <1>3, <1>2, <2>2
    <3>. QED  BY <3>1, <1>4
  <2>5. RingSize <= q + 1 /\ RingSize \in 1 .. Len(s) + 1  BY SMTT(60), <1>5, <1>3, <1>2, <2>2 DEF EventStreamAssumption
  <2>7. \A i \in 1 .. Len(t) : t[i] = <<n, r, q + 1 - Len(t) + i>>  BY <2>3, <2>4, <2>6
  <2>8. Ending(t, n, r, q + 1) /\ Len(t) \in 1 .. Len(s) + 1  BY SMTT(60), <2>3, <2>5, <2>6, <2>7 DEF Ending
  <2>. QED  BY <2>1, <2>8 DEF t
<1>6. CASE ~ (Len(a) > RingSize)
  <2>1. Trim(a) = a  BY <1>6 DEF Trim
  <2>2. Len(a) <= q + 1 /\ Len(a) \in 1 .. Len(s) + 1  BY SMTT(60), <1>3, <1>2
  <2>. QED  BY SMTT(60), <2>1, <2>2, <1>3, <1>4 DEF Ending
<1>. QED  BY <1>5, <1>6

\* What the buffer has after number k is the ending of what is newer.
LEMMA AfterIsEnding ==
    ASSUME NEW n, NEW r, NEW q \in Nat, NEW s, Ending(s, n, r, q), NEW k \in Nat
    PROVE  LET t == After(s, k) IN
           /\ Ending(t, n, r, q) /\ Len(t) <= Len(s)
           /\ t # <<>> => q - Len(t) >= k
           /\ \A j \in Nat : j > q - Len(s) /\ j <= q /\ j > k => j > q - Len(t)
<1>. DEFINE newer == {i \in DOMAIN s : s[i][3] > k}
            m == IF q - Len(s) >= k THEN 1 ELSE k - (q - Len(s)) + 1
<1>1. s \in Seq(Evt) /\ Len(s) \in Nat /\ Len(s) <= q /\ DOMAIN s = 1 .. Len(s)  BY SMTT(60) DEF Ending
<1>2. m \in Nat /\ m >= 1  BY SMTT(60), <1>1
<1>3. \A i \in 1 .. Len(s) : s[i][3] = q - Len(s) + i  BY SMTT(60) DEF Ending
<1>4. \A i \in 1 .. Len(s) : i \in newer <=> i >= m
  <2>1. \A i \in 1 .. Len(s) : i \in newer <=> s[i][3] > k  BY <1>1
  <2>2. \A i \in 1 .. Len(s) : q - Len(s) + i > k <=> i >= m  BY SMTT(60), <1>1
  <2>. QED  BY <2>1, <2>2, <1>3
<1>5. newer \subseteq 1 .. Len(s)  BY <1>1
<1>. HIDE DEF newer
<1>6. CASE newer = {}
  <2>1. After(s, k) = <<>>  BY <1>6 DEF After, newer
  <2>2. m > Len(s)  BY SMTT(60), <1>1, <1>2, <1>4, <1>6
  <2>3. Ending(<<>>, n, r, q) /\ Len(<<>>) = 0  BY SMTT(60) DEF Ending
  <2>4. \A j \in Nat : j > q - Len(s) /\ j <= q /\ j > k => j > q - 0  BY SMTT(60), <1>1, <2>2
  <2>. QED  BY SMTT(60), <1>1, <2>1, <2>3, <2>4
<1>7. CASE newer # {}
  <2>0. PICK x \in 1 .. Len(s) : x \in newer  BY <1>5, <1>7
  <2>11. x >= m  BY <2>0, <1>4
  <2>12. m \in 1 .. Len(s)  BY SMTT(60), <2>11, <1>1, <1>2
  <2>13. m >= m  BY SMTT(60), <1>2
  <2>1. m \in 1 .. Len(s) /\ m \in newer  BY <2>12, <2>13, <1>4
  <2>2. \A y \in newer : m <= y  BY <1>4, <1>5, <1>2
  <2>3. Min(newer) = m
    <3>1. Min(newer) \in newer /\ \A y \in newer : Min(newer) <= y  BY <2>1, <2>2 DEF Min
    <3>4. Min(newer) \in 1 .. Len(s) /\ Min(newer) <= m /\ m <= Min(newer)  BY <3>1, <2>1, <2>2, <1>5
    <3>2. Min(newer) <= m /\ m <= Min(newer) /\ Min(newer) \in Nat  BY SMTT(60), <3>4
    <3>. QED  BY SMTT(60), <3>2, <1>2
  <2>. DEFINE t == SubSeq(s, m, Len(s))
  <2>4. After(s, k) = t  BY <1>7, <2>3 DEF After, newer
  <2>. HIDE DEF m
  <2>5. t \in Seq(Evt) /\ Len(t) = Len(s) - m + 1 /\ \A i \in 1 .. Len(s) - m + 1 : t[i] = s[m + i - 1]
    BY <1>1, <2>1, Suffix
  <2>. HIDE DEF t
  <2>6. \A i \in 1 .. Len(t) : t[i] = <<n, r, q - Len(t) + i>>
    <3>. TAKE i \in 1 .. Len(t)
    <3>1. i \in 1 .. Len(s) - m + 1 /\ m + i - 1 \in 1 .. Len(s) /\ q - Len(s) + (m + i - 1) = q - Len(t) + i
      BY SMTT(60), <2>5, <1>1, <2>1
    <3>2. s[m + i - 1] = <<n, r, q - Len(s) + (m + i - 1)>>  BY <3>1 DEF Ending
    <3>. QED  BY <2>5, <3>1, <3>2
  <2>7. Len(t) <= Len(s) /\ Len(t) <= q  BY SMTT(60), <2>5, <1>1, <2>1
  <2>8. q - Len(t) >= k  BY SMTT(60), <2>5, <1>1, <2>1 DEF m
  <2>9. \A j \in Nat : j > q - Len(s) /\ j <= q /\ j > k => j > q - Len(t)  BY SMTT(60), <2>5, <1>1, <2>1 DEF m
  <2>10. Ending(t, n, r, q)  BY <2>5, <2>6, <2>7 DEF Ending
  <2>. QED  BY <2>4, <2>7, <2>8, <2>9, <2>10
<1>. QED  BY <1>6, <1>7

-----------------------------------------------------------------------------
\* What taking the first event of a sequence leaves.
LEMMA TakeFirst ==
    ASSUME NEW s \in Seq(Evt), s # <<>>, Rising(s)
    PROVE  /\ Head(s) \in Range(s) /\ Tail(s) \in Seq(Evt)
           /\ Range(s) = {Head(s)} \cup Range(Tail(s))
           /\ Rising(Tail(s)) /\ \A e \in Range(Tail(s)) : Head(s)[3] < e[3]
<1>. DEFINE t == Tail(s)
<1>1. /\ Len(s) \in Nat /\ Len(s) >= 1 /\ DOMAIN s = 1 .. Len(s)
      /\ t \in Seq(Evt) /\ Len(t) = Len(s) - 1 /\ DOMAIN t = 1 .. Len(s) - 1
      /\ \A i \in 1 .. Len(s) - 1 : t[i] = s[i + 1]
      /\ Head(s) = s[1]
  BY SMTT(60)
<1>. HIDE DEF t
<1>2. \A i \in 1 .. Len(s) - 1 : i + 1 \in 1 .. Len(s) /\ 1 < i + 1  BY SMTT(60), <1>1
<1>3. 1 \in 1 .. Len(s)  BY SMTT(60), <1>1
<1>4. \A i \in 1 .. Len(s) : i # 1 => i - 1 \in 1 .. Len(s) - 1 /\ (i - 1) + 1 = i  BY SMTT(60), <1>1
<1>5. Range(s) = {Head(s)} \cup Range(t)
  <2>1. \A x \in Range(s) : x \in {Head(s)} \cup Range(t)
    <3>. TAKE x \in Range(s)
    <3>1. PICK i \in 1 .. Len(s) : x = s[i]  BY <1>1 DEF Range
    <3>2. CASE i = 1  BY <3>1, <3>2, <1>1
    <3>3. CASE i # 1
      <4>1. i - 1 \in DOMAIN t /\ t[i - 1] = s[i]  BY <1>1, <1>4, <3>3
      <4>. QED  BY <4>1, <3>1 DEF Range
    <3>. QED  BY <3>2, <3>3
  <2>2. \A x \in Range(t) : x \in Range(s)
    <3>. TAKE x \in Range(t)
    <3>1. PICK i \in 1 .. Len(s) - 1 : x = t[i]  BY <1>1 DEF Range
    <3>. QED  BY <3>1, <1>1, <1>2 DEF Range
  <2>3. Head(s) \in Range(s)  BY <1>1, <1>3 DEF Range
  <2>. QED  BY <2>1, <2>2, <2>3
<1>6. \A e \in Range(t) : Head(s)[3] < e[3]
  <2>. TAKE e \in Range(t)
  <2>1. PICK i \in 1 .. Len(s) - 1 : e = t[i]  BY <1>1 DEF Range
  <2>. QED  BY <2>1, <1>1, <1>2, <1>3 DEF Rising
<1>7. Rising(t)
  <2>1. \A i, j \in 1 .. Len(s) - 1 : i < j => i + 1 < j + 1  BY SMTT(60), <1>1
  <2>. QED  BY SMTT(60), <1>1, <1>2, <2>1 DEF Rising
<1>. QED  BY <1>1, <1>5, <1>6, <1>7 DEF t

\* What adding an event at the end makes.
LEMMA AddLast ==
    ASSUME NEW s \in Seq(Evt), Rising(s), NEW e \in Evt, \A d \in Range(s) : d[3] < e[3]
    PROVE  /\ Append(s, e) \in Seq(Evt) /\ Rising(Append(s, e))
           /\ Range(Append(s, e)) = Range(s) \cup {e}
<1>. DEFINE t == Append(s, e)
<1>1. /\ Len(s) \in Nat /\ DOMAIN s = 1 .. Len(s)
      /\ t \in Seq(Evt) /\ Len(t) = Len(s) + 1 /\ DOMAIN t = 1 .. Len(s) + 1
      /\ \A i \in 1 .. Len(s) : t[i] = s[i]
      /\ t[Len(s) + 1] = e
  BY SMTT(60)
<1>. HIDE DEF t
<1>2. \A i \in 1 .. Len(s) + 1 : i = Len(s) + 1 \/ i \in 1 .. Len(s)  BY SMTT(60), <1>1
<1>3. Len(s) + 1 \in 1 .. Len(s) + 1 /\ \A i \in 1 .. Len(s) : i \in 1 .. Len(s) + 1  BY SMTT(60), <1>1
<1>4. Range(t) = Range(s) \cup {e}
  <2>1. \A x \in Range(t) : x \in Range(s) \cup {e}  BY <1>1, <1>2 DEF Range
  <2>2. \A x \in Range(s) \cup {e} : x \in Range(t)  BY <1>1, <1>3 DEF Range
  <2>. QED  BY <2>1, <2>2
<1>5. Rising(t)
  <2>. SUFFICES ASSUME NEW i \in 1 .. Len(t), NEW j \in 1 .. Len(t), i < j PROVE t[i][3] < t[j][3]  BY DEF Rising
  <2>1. i \in 1 .. Len(s)  BY SMTT(60), <1>1
  <2>2. CASE j = Len(s) + 1
    <3>1. s[i] \in Range(s)  BY <2>1, <1>1 DEF Range
    <3>. QED  BY <3>1, <2>1, <2>2, <1>1
  <2>3. CASE j \in 1 .. Len(s)  BY <2>1, <2>3, <1>1 DEF Rising
  <2>. QED  BY <2>2, <2>3, <1>1, <1>2
<1>. QED  BY <1>1, <1>4, <1>5 DEF t

\* An ending rises, and its events are the node's, by number.
LEMMA EndingRises ==
    ASSUME NEW n, NEW r, NEW q \in Nat, NEW s, Ending(s, n, r, q)
    PROVE  /\ Rising(s)
           /\ \A e \in Range(s) : e[1] = n /\ e[2] = r /\ e[3] \in Nat /\ e[3] > q - Len(s) /\ e[3] <= q /\ e = <<n, r, e[3]>>
<1>1. Len(s) \in Nat /\ DOMAIN s = 1 .. Len(s) /\ Len(s) <= q  BY SMTT(60) DEF Ending
<1>2. \A i \in 1 .. Len(s) : s[i][1] = n /\ s[i][2] = r /\ s[i][3] = q - Len(s) + i /\ s[i] = <<n, r, q - Len(s) + i>>
  <2>. TAKE i \in 1 .. Len(s)
  <2>1. s[i] = <<n, r, q - Len(s) + i>>  BY DEF Ending
  <2>. QED  BY SMTT(60), <2>1
<1>3. \A i, j \in 1 .. Len(s) : i < j => q - Len(s) + i < q - Len(s) + j  BY SMTT(60), <1>1
<1>4. \A i \in 1 .. Len(s) : /\ q - Len(s) + i \in Nat /\ q - Len(s) + i > q - Len(s)
                             /\ q - Len(s) + i <= q
  BY SMTT(60), <1>1
<1>5. Rising(s)  BY <1>2, <1>3 DEF Rising
<1>6. ASSUME NEW e \in Range(s)
      PROVE  e[1] = n /\ e[2] = r /\ e[3] \in Nat /\ e[3] > q - Len(s) /\ e[3] <= q /\ e = <<n, r, e[3]>>
  <2>1. PICK i \in 1 .. Len(s) : e = s[i]  BY <1>1 DEF Range
  <2>. QED  BY <2>1, <1>2, <1>4
<1>. QED  BY <1>5, <1>6

\* The empty sequence.
LEMMA Nothing == Range(<<>>) = {} /\ Rising(<<>>) /\ <<>> \in Seq(Evt)
<1>1. DOMAIN <<>> = {} /\ <<>> \in Seq(Evt)  BY SMTT(60)
<1>2. \A i \in 1 .. Len(<<>>) : FALSE  BY SMTT(60)
<1>. QED  BY <1>1, <1>2 DEF Range, Rising

\* The components of an event.
LEMMA EventParts == \A e \in Evt : e[1] \in Sources /\ e[2] \in Nat /\ e[3] \in Nat
BY DEF Evt

\* What is in a sequence of events is an event.
LEMMA RangeOfEvents == \A s \in Seq(Evt) : Range(s) \subseteq Evt
<1>. TAKE s \in Seq(Evt)
<1>1. \A i \in DOMAIN s : s[i] \in Evt  BY SMTT(60)
<1>. QED  BY <1>1 DEF Range

-----------------------------------------------------------------------------
\* The streams of one node.
NodeInv(n) == RingInv(n) /\ WayInv(n) /\ HeldInv(n)

\* The cursors.
CursorsInv == CursorInv(cursor) /\ CursorInv(since)

\* A step that leaves a node's bus and streams alone keeps what holds of them.
LEMMA Elsewhere ==
    ASSUME NEW m, NodeInv(m), run'[m] = run[m], seq'[m] = seq[m], ring'[m] = ring[m], spc'[m] = spc[m],
           chan'[m] = chan[m], wire'[m] = wire[m], last'[m] = last[m], Accounted \subseteq Accounted'
    PROVE  NodeInv(m)'
<1>1. RingInv(m)'  BY DEF NodeInv, RingInv
<1>2. WayInv(m)'  BY DEF NodeInv, WayInv
<1>3. HeldInv(m)'  BY DEF NodeInv, HeldInv, Ev
<1>. QED  BY <1>1, <1>2, <1>3 DEF NodeInv

\* A step that leaves the cursors and the runs alone keeps what holds of them.
LEMMA CursorsStay ==
    ASSUME CursorsInv, cursor' = cursor, since' = since, run' = run, Accounted \subseteq Accounted'
    PROVE  CursorsInv'
BY DEF CursorsInv, CursorInv, Ev

\* The types of what a node's streams hold.
LEMMA NodeTypes ==
    ASSUME StreamTypes, NEW n \in Sources
    PROVE  /\ run[n] \in Nat /\ seq[n] \in Nat /\ last[n] \in Nat /\ ring[n] \in Seq(Evt)
           /\ chan[n] \in Seq(Evt) /\ wire[n] \in Seq(Evt)
           /\ \A e \in Range(wire[n]) \cup Range(chan[n]) : e \in Evt /\ e[2] \in Nat /\ e[3] \in Nat
BY RangeOfEvents, EventParts DEF StreamTypes


\* What the invariant says, by parts.
LEMMA Parts ==
    ASSUME FirehoseInv
    PROVE  StreamTypes /\ CursorsInv /\ PeersInv /\ \A m \in Sources : NodeInv(m)
BY DEF FirehoseInv, NodeInv, CursorsInv

\* Publish: what the buffer rotates out is on the way, or accounted for.
LEMMA PublishKeeps ==
    ASSUME EventStreamAssumption, FirehoseInv, NEW n \in Sources, Publish(n)
    PROVE  FirehoseInv'
<1>. DEFINE e == Ev(n, seq[n] + 1)
            live == spc[n] = "live" /\ ~ (Len(chan[n]) >= ChanSize)
            rotated == Range(ring[n]) \ Range(ring'[n])
<1>1. StreamTypes /\ NodeInv(n) /\ CursorsInv /\ PeersInv /\ \A m \in Sources : NodeInv(m)
  BY DEF FirehoseInv, NodeInv, CursorsInv
<1>2. /\ run[n] \in Nat /\ seq[n] \in Nat /\ last[n] \in Nat /\ ring[n] \in Seq(Evt)
      /\ chan[n] \in Seq(Evt) /\ wire[n] \in Seq(Evt)
      /\ \A d \in Range(wire[n]) \cup Range(chan[n]) : d \in Evt /\ d[2] \in Nat /\ d[3] \in Nat
  BY <1>1, NodeTypes
<1>3. /\ run' = run /\ spc' = spc /\ wire' = wire /\ last' = last /\ cursor' = cursor /\ since' = since
      /\ seen' = seen /\ got' = got
      /\ seq' = [seq EXCEPT ![n] = @ + 1] /\ ring' = [ring EXCEPT ![n] = Trim(Append(@, e))]
      /\ chan' = IF live THEN [chan EXCEPT ![n] = Append(@, e)] ELSE chan
  BY DEF Publish, client, e, live, Ev
<1>4. seq'[n] = seq[n] + 1 /\ ring'[n] = Trim(Append(ring[n], e)) /\ chan'[n] = IF live THEN Append(chan[n], e) ELSE chan[n]
  BY <1>1, <1>3 DEF StreamTypes
<1>5. /\ dropped' = dropped \cup (IF spc[n] = "live" /\ ~ live THEN {e} ELSE {})
                      \cup (rotated \ (got \cup Range(chan[n]) \cup Range(wire[n])))
      /\ gap' = IF spc[n] = "subscribe" THEN gap \cup {e} ELSE gap
  <2>1. Range(ring[n]) \ Range(Trim(Append(ring[n], e))) = rotated  BY <1>4
  <2>. QED  BY <2>1 DEF Publish, Ev
<1>6. e \in Evt /\ e[1] = n /\ e[2] = run[n] /\ e[3] = seq[n] + 1  BY SMTT(60), <1>2 DEF e, Ev, Evt
<1>7. Accounted \subseteq Accounted'  BY <1>3, <1>5 DEF Accounted
<1>8. Ending(ring[n], n, run[n], seq[n])  BY <1>1 DEF NodeInv, RingInv
<1>9. Ending(ring'[n], n, run[n], seq[n] + 1) /\ Len(ring'[n]) \in 1 .. Len(ring[n]) + 1
  BY SMTT(60), <1>2, <1>4, <1>8, TrimIsEnding DEF e, Ev
<1>10. RingInv(n)'  BY <1>3, <1>4, <1>9 DEF RingInv
<1>18. live => spc[n] = "live" /\ spc[n] # "off"  BY DEF live
<1>. HIDE DEF e, live, rotated
<1>11. /\ chan'[n] \in Seq(Evt) /\ Rising(chan'[n]) /\ Range(chan'[n]) = Range(chan[n]) \cup (IF live THEN {e} ELSE {})
  <2>1. Rising(chan[n])  BY <1>1 DEF NodeInv, WayInv
  <2>2. CASE live
    <3>1. \A d \in Range(chan[n]) : d[3] <= seq[n]  BY <1>1, <2>2 DEF NodeInv, WayInv, live
    <3>2. \A d \in Range(chan[n]) : d[3] < e[3]  BY SMTT(60), <3>1, <1>6, <1>2
    <3>3. /\ Append(chan[n], e) \in Seq(Evt) /\ Rising(Append(chan[n], e))
          /\ Range(Append(chan[n], e)) = Range(chan[n]) \cup {e}
      BY <1>2, <1>6, <2>1, <3>2, AddLast
    <3>. QED  BY <1>4, <2>2, <3>3
  <2>3. CASE ~ live  BY <1>2, <1>4, <2>1, <2>3
  <2>. QED  BY <2>2, <2>3
<1>12. StreamTypes'
  <2>1. seq' \in [Sources -> Nat]  BY SMTT(60), <1>1, <1>2, <1>3 DEF StreamTypes
  <2>2. ring' \in [Sources -> Seq(Evt)]
    <3>1. Trim(Append(ring[n], e)) \in Seq(Evt)  BY <1>4, <1>9 DEF Ending
    <3>. QED  BY <3>1, <1>1, <1>3 DEF StreamTypes
  <2>3. chan' \in [Sources -> Seq(Evt)]
    <3>1. live => Append(chan[n], e) \in Seq(Evt)  BY <1>4, <1>11
    <3>. QED  BY <3>1, <1>1, <1>3 DEF StreamTypes
  <2>. QED  BY <2>1, <2>2, <2>3, <1>1, <1>3 DEF StreamTypes
<1>13. WayInv(n)'
  <2>. DEFINE way == Range(wire[n]) \cup Range(chan[n])
              new == Range(wire'[n]) \cup Range(chan'[n])
  <2>1. \A d \in new : d \in way \/ (live /\ d = e)  
    <3>1. wire'[n] = wire[n] /\ (live \/ Range(chan'[n]) = Range(chan[n])) /\ Range(chan'[n]) \subseteq Range(chan[n]) \cup {e}  BY <1>3, <1>11
    <3>. QED  BY <3>1
  <2>2. \A d \in way : /\ d[1] = n /\ d[2] <= run[n] /\ d[3] > last[n]
                       /\ spc[n] # "off" => d[2] = run[n] /\ d[3] <= seq[n]
    BY <1>1 DEF NodeInv, WayInv
  <2>3. spc[n] # "off" => last[n] <= seq[n]  BY <1>1 DEF NodeInv, WayInv
  <2>4. \A d \in way : spc[n] # "off" => d[3] <= seq[n] + 1  BY SMTT(60), <2>2, <1>2
  <2>5. spc[n] # "off" => last[n] <= seq[n] + 1  BY SMTT(60), <2>3, <1>2
  <2>6. live => e[2] <= run[n] /\ e[3] > last[n] /\ e[3] <= seq[n] + 1  BY SMTT(60), <2>3, <1>2, <1>6, <1>18
  <2>7. \A d \in new : /\ d[1] = n /\ d[2] <= run[n] /\ d[3] > last[n]
                       /\ spc[n] # "off" => d[2] = run[n] /\ d[3] <= seq[n] + 1
    BY <2>1, <2>2, <2>4, <2>6, <1>6
  <2>8. \A d \in Range(wire'[n]), f \in Range(chan'[n]) : d[3] < f[3]
    <3>1. \A d \in Range(wire[n]), f \in Range(chan[n]) : d[3] < f[3]  BY <1>1 DEF NodeInv, WayInv
    <3>2. live => \A d \in Range(wire[n]) : d[3] < e[3]  BY SMTT(60), <2>2, <1>2, <1>6, <1>18
    <3>. QED  BY <3>1, <3>2, <1>3, <1>11
  <2>9. Rising(wire'[n])  BY <1>1, <1>3 DEF NodeInv, WayInv
  <2>10. spc[n] # "live" => chan'[n] = <<>>  BY <1>1, <1>4 DEF NodeInv, WayInv, live
  <2>11. spc[n] = "replay" => wire'[n] = <<>> /\ last[n] = 0  BY <1>1, <1>3 DEF NodeInv, WayInv
  <2>. QED  BY <2>5, <2>7, <2>8, <2>9, <2>10, <2>11, <1>3, <1>4, <1>11 DEF WayInv
<1>14. HeldInv(n)'
  <2>. DEFINE buffered == spc[n] \in {"off", "replay"}
              there == Accounted' \cup Range(wire'[n]) \cup Range(chan'[n])
  <2>1. Accounted \cup Range(wire[n]) \cup Range(chan[n]) \subseteq there  BY <1>3, <1>7, <1>11
  <2>2. ASSUME NEW k \in 1 .. seq[n] PROVE Ev(n, k) \in there \/ (buffered /\ k > (seq[n] + 1) - Len(ring'[n]))
    <3>1. CASE Ev(n, k) \in Accounted \cup Range(wire[n]) \cup Range(chan[n])  BY <3>1, <2>1
    <3>2. CASE buffered /\ k > seq[n] - Len(ring[n]) /\ ~ (k > (seq[n] + 1) - Len(ring'[n]))
      <4>1. k \in Nat /\ k <= seq[n] /\ seq[n] + 1 \in Nat  BY SMTT(60), <1>2
      <4>2. Ev(n, k) \in Range(ring[n])  BY <4>1, <3>2, <1>2, <1>8, EndingHas DEF Ev
      <4>3. Ev(n, k) \notin Range(ring'[n])
        <5>1. <<n, run[n], k>> \in Range(ring'[n]) <=> k > (seq[n] + 1) - Len(ring'[n]) /\ k <= seq[n] + 1
          <6>. DEFINE q == seq[n] + 1
          <6>1. Ending(ring'[n], n, run[n], q) /\ q \in Nat /\ k \in Nat  BY <1>9, <4>1
          <6>. HIDE DEF q
          <6>2. <<n, run[n], k>> \in Range(ring'[n]) <=> k > q - Len(ring'[n]) /\ k <= q  BY <6>1, EndingHas
          <6>. QED  BY <6>2 DEF q
        <5>. QED  BY <5>1, <3>2 DEF Ev
      <4>4. Ev(n, k) \in dropped' \cup got \cup Range(chan[n]) \cup Range(wire[n])  BY <4>2, <4>3, <1>5 DEF rotated
      <4>. QED  BY <4>4, <2>1, <1>3 DEF Accounted
    <3>. QED  BY <3>1, <3>2, <1>1 DEF NodeInv, HeldInv
  <2>3. e \in there \/ (buffered /\ seq[n] + 1 > (seq[n] + 1) - Len(ring'[n]))
    <3>1. CASE spc[n] = "subscribe"  BY <3>1, <1>5 DEF Accounted
    <3>2. CASE spc[n] = "live"  BY <3>2, <1>5, <1>11 DEF Accounted, live
    <3>3. CASE buffered
      <4>1. seq[n] + 1 > (seq[n] + 1) - Len(ring'[n])  BY SMTT(60), <1>2, <1>9
      <4>. QED  BY <3>3, <4>1
    <3>. QED  BY <3>1, <3>2, <3>3, <1>1 DEF StreamTypes
  <2>4. \A k \in 1 .. seq[n] + 1 : k = seq[n] + 1 \/ k \in 1 .. seq[n]  BY SMTT(60), <1>2
  <2>5. \A k \in 1 .. seq[n] + 1 : Ev(n, k) \in there \/ (buffered /\ k > (seq[n] + 1) - Len(ring'[n]))
    BY <2>2, <2>3, <2>4 DEF e
  <2>6. \A d \in Range(wire[n]) : d[2] = run[n] => \A k \in 1 .. d[3] : Ev(n, k) \in Accounted \cup Range(wire[n])
    BY <1>1 DEF NodeInv, HeldInv
  <2>8. \A d \in Range(wire'[n]) : d[2] = run'[n] => \A k \in 1 .. d[3] : Ev(n, k) \in Accounted' \cup Range(wire'[n])
    BY <2>6, <1>3, <1>7
  <2>9. /\ \A k \in 1 .. seq'[n] : Ev(n, k) \in there \/ (spc'[n] \in {"off", "replay"} /\ k > seq'[n] - Len(ring'[n]))
        /\ run'[n] = run[n]
    BY <2>5, <1>3, <1>4
  <2>. QED  BY <2>9, <2>8 DEF HeldInv, Ev
<1>15. ASSUME NEW m \in Sources, m # n PROVE NodeInv(m)'
  <2>1. /\ run'[m] = run[m] /\ seq'[m] = seq[m] /\ ring'[m] = ring[m] /\ spc'[m] = spc[m]
        /\ chan'[m] = chan[m] /\ wire'[m] = wire[m] /\ last'[m] = last[m]
    BY <1>1, <1>3, <1>15 DEF StreamTypes
  <2>. QED  BY <2>1, <1>1, <1>7, Elsewhere
<1>16. CursorsInv'  BY <1>1, <1>3, <1>7, CursorsStay
<1>17. PeersInv'  BY <1>1, <1>3 DEF PeersInv
<1>. QED  BY <1>10, <1>12, <1>13, <1>14, <1>15, <1>16, <1>17 DEF FirehoseInv, NodeInv, CursorsInv
\* Connect: nothing is on the way, and every stream begins anew.
LEMMA ConnectKeeps ==
    ASSUME EventStreamAssumption, FirehoseInv, Connect
    PROVE  FirehoseInv'
<1>1. StreamTypes /\ CursorsInv /\ PeersInv /\ \A m \in Sources : NodeInv(m)  BY Parts
<1>2. /\ run' = run /\ seq' = seq /\ ring' = ring /\ chan' = chan /\ wire' = wire
      /\ cursor' = cursor /\ since' = cursor /\ seen' = {} /\ last' = [n \in Sources |-> 0]
      /\ spc' = [spc EXCEPT ![Entry] = "replay"] /\ spc[Entry] = "off" /\ Accounted' = Accounted
  BY DEF Connect, bus, Accounted
<1>3. StreamTypes'
  <2>1. last' \in [Sources -> Nat]  BY <1>2
  <2>2. spc' \in [Sources -> {"off", "replay", "subscribe", "live"}]  BY <1>1, <1>2 DEF StreamTypes
  <2>. QED  BY <2>1, <2>2, <1>1, <1>2 DEF StreamTypes
<1>4. ASSUME NEW m \in Sources PROVE NodeInv(m)'
  <2>1. spc[m] = "off" /\ wire[m] = <<>>  BY <1>1, <1>2 DEF PeersInv
  <2>2. chan[m] = <<>>  BY <2>1, <1>1 DEF NodeInv, WayInv
  <2>3. spc'[m] \in {"off", "replay"} /\ last'[m] = 0  BY <1>1, <1>2, <2>1 DEF StreamTypes
  <2>4. seq[m] \in Nat /\ 0 <= seq[m]  BY SMTT(60), <1>1 DEF StreamTypes
  <2>5. RingInv(m)'  BY <1>1, <1>2 DEF NodeInv, RingInv
  <2>6. WayInv(m)'  BY <1>2, <2>1, <2>2, <2>3, <2>4, Nothing DEF WayInv
  <2>7. HeldInv(m)'  BY <1>1, <1>2, <2>1, <2>2, <2>3, Nothing DEF NodeInv, HeldInv, Ev
  <2>. QED  BY <2>5, <2>6, <2>7 DEF NodeInv
<1>5. CursorsInv'  BY <1>1, <1>2 DEF CursorsInv, CursorInv, Ev
<1>6. PeersInv'
  <2>1. spc'[Entry] = "replay" /\ \A m \in Sources : m # Entry => spc'[m] = spc[m]
    BY <1>1, <1>2 DEF StreamTypes, EventStreamAssumption
  <2>. QED  BY <2>1, <1>1, <1>2 DEF PeersInv
<1>. QED  BY <1>3, <1>4, <1>5, <1>6 DEF FirehoseInv, NodeInv, CursorsInv

\* Subscribe: what a backfill left behind is accounted for.
LEMMA SubscribeKeeps ==
    ASSUME EventStreamAssumption, FirehoseInv, NEW n \in Sources, Subscribe(n)
    PROVE  FirehoseInv'
<1>1. StreamTypes /\ CursorsInv /\ PeersInv /\ \A m \in Sources : NodeInv(m)  BY Parts
<1>2. /\ run' = run /\ seq' = seq /\ ring' = ring /\ chan' = chan /\ wire' = wire /\ last' = last
      /\ cursor' = cursor /\ since' = since /\ seen' = seen /\ Accounted' = Accounted /\ spc[n] = "subscribe"
      /\ spc' = [m \in Sources |-> IF m = n THEN "live" ELSE IF n = Entry THEN "replay" ELSE spc[m]]
  BY DEF Subscribe, bus, client, Accounted
<1>3. StreamTypes'  BY <1>1, <1>2 DEF StreamTypes
<1>4. NodeInv(n)'
  <2>1. spc'[n] = "live"  BY <1>2
  <2>2. RingInv(n)'  BY <1>1, <1>2 DEF NodeInv, RingInv
  <2>3. WayInv(n)'  BY <1>1, <1>2, <2>1 DEF NodeInv, WayInv
  <2>4. HeldInv(n)'  BY <1>1, <1>2, <2>1 DEF NodeInv, HeldInv, Ev
  <2>. QED  BY <2>2, <2>3, <2>4 DEF NodeInv
<1>5. ASSUME NEW m \in Sources, m # n PROVE NodeInv(m)'
  <2>1. CASE n = Entry
    <3>1. spc[m] = "off" /\ wire[m] = <<>> /\ last[m] = 0  BY <1>1, <1>2, <1>5, <2>1 DEF PeersInv
    <3>2. chan[m] = <<>>  BY <3>1, <1>1 DEF NodeInv, WayInv
    <3>3. spc'[m] = "replay"  BY <1>2, <1>5, <2>1
    <3>4. seq[m] \in Nat /\ 0 <= seq[m]  BY SMTT(60), <1>1 DEF StreamTypes
    <3>5. RingInv(m)'  BY <1>1, <1>2 DEF NodeInv, RingInv
    <3>6. WayInv(m)'  BY <1>2, <3>1, <3>2, <3>3, <3>4, Nothing DEF WayInv
    <3>7. HeldInv(m)'  BY <1>1, <1>2, <3>1, <3>2, <3>3, Nothing DEF NodeInv, HeldInv, Ev
    <3>. QED  BY <3>5, <3>6, <3>7 DEF NodeInv
  <2>2. CASE n # Entry
    <3>1. spc'[m] = spc[m]  BY <1>2, <1>5, <2>2
    <3>. QED  BY <3>1, <1>1, <1>2, Elsewhere
  <2>. QED  BY <2>1, <2>2
<1>6. CursorsInv'  BY <1>1, <1>2, CursorsStay
<1>7. spc'[Entry] = "live"
  <2>1. n = Entry \/ spc[Entry] = "live"  BY <1>1, <1>2 DEF PeersInv
  <2>. QED  BY <2>1, <1>2 DEF EventStreamAssumption
<1>8. PeersInv'  BY <1>1, <1>2, <1>7 DEF PeersInv
<1>. QED  BY <1>3, <1>4, <1>5, <1>6, <1>8 DEF FirehoseInv, NodeInv, CursorsInv

\* Forward: an event moves from the subscription to the wire, behind the others.
LEMMA ForwardKeeps ==
    ASSUME EventStreamAssumption, FirehoseInv, NEW n \in Sources, Forward(n)
    PROVE  FirehoseInv'
<1>. DEFINE e == Head(chan[n])
            t == Tail(chan[n])
<1>1. StreamTypes /\ CursorsInv /\ PeersInv /\ NodeInv(n) /\ \A m \in Sources : NodeInv(m)  BY Parts
<1>2. /\ run' = run /\ seq' = seq /\ ring' = ring /\ spc' = spc /\ last' = last
      /\ cursor' = cursor /\ since' = since /\ seen' = seen /\ Accounted' = Accounted /\ chan[n] # <<>>
      /\ wire' = [wire EXCEPT ![n] = Append(@, e)] /\ chan' = [chan EXCEPT ![n] = t]
  BY DEF Forward, bus, client, Accounted
<1>3. /\ run[n] \in Nat /\ seq[n] \in Nat /\ last[n] \in Nat /\ chan[n] \in Seq(Evt) /\ wire[n] \in Seq(Evt)
      /\ \A d \in Range(wire[n]) \cup Range(chan[n]) : d \in Evt /\ d[2] \in Nat /\ d[3] \in Nat
  BY <1>1, NodeTypes
<1>4. spc[n] = "live" /\ spc[n] # "off"  BY <1>1, <1>2 DEF NodeInv, WayInv
<1>5. wire'[n] = Append(wire[n], e) /\ chan'[n] = t  BY <1>1, <1>2 DEF StreamTypes
<1>6. /\ Rising(wire[n]) /\ Rising(chan[n])
      /\ \A d \in Range(wire[n]), f \in Range(chan[n]) : d[3] < f[3]
      /\ \A d \in Range(wire[n]) \cup Range(chan[n]) :
            d[1] = n /\ d[2] <= run[n] /\ d[3] > last[n] /\ d[2] = run[n] /\ d[3] <= seq[n]
      /\ last[n] <= seq[n]
  BY <1>1, <1>4 DEF NodeInv, WayInv
<1>7. /\ e \in Range(chan[n]) /\ t \in Seq(Evt) /\ Range(chan[n]) = {e} \cup Range(t)
      /\ Rising(t) /\ \A d \in Range(t) : e[3] < d[3]
  BY <1>2, <1>3, <1>6, TakeFirst
<1>. HIDE DEF e, t
<1>8. /\ Append(wire[n], e) \in Seq(Evt) /\ Rising(Append(wire[n], e))
      /\ Range(Append(wire[n], e)) = Range(wire[n]) \cup {e}
  <2>1. e \in Evt /\ \A d \in Range(wire[n]) : d[3] < e[3]  BY <1>3, <1>6, <1>7
  <2>. QED  BY <2>1, <1>3, <1>6, AddLast
<1>9. StreamTypes'
  <2>1. wire' \in [Sources -> Seq(Evt)] /\ chan' \in [Sources -> Seq(Evt)]  BY <1>1, <1>2, <1>7, <1>8 DEF StreamTypes
  <2>. QED  BY <2>1, <1>1, <1>2 DEF StreamTypes
<1>10. Range(wire'[n]) = Range(wire[n]) \cup {e} /\ Range(chan'[n]) = Range(t) /\ Rising(wire'[n]) /\ Rising(chan'[n])
  BY <1>5, <1>7, <1>8
<1>11. WayInv(n)'
  <2>1. \A d \in Range(wire'[n]) \cup Range(chan'[n]) : d \in Range(wire[n]) \cup Range(chan[n])  BY <1>7, <1>10
  <2>2. \A d \in Range(wire'[n]), f \in Range(chan'[n]) : d[3] < f[3]  BY <1>6, <1>7, <1>10
  <2>. QED  BY <2>1, <2>2, <1>2, <1>4, <1>6, <1>10 DEF WayInv
<1>12. HeldInv(n)'
  <2>1. \A k \in 1 .. seq[n] : Ev(n, k) \in Accounted \cup Range(wire[n]) \cup Range(chan[n])  BY <1>1, <1>4 DEF NodeInv, HeldInv
  <2>2. \A k \in 1 .. seq[n] : Ev(n, k) \in Accounted \cup Range(wire'[n]) \cup Range(chan'[n])  BY <2>1, <1>7, <1>10
  <2>3. \A d \in Range(wire[n]) : d[2] = run[n] => \A k \in 1 .. d[3] : Ev(n, k) \in Accounted \cup Range(wire[n])
    BY <1>1 DEF NodeInv, HeldInv
  <2>4. ASSUME NEW k \in 1 .. e[3] PROVE Ev(n, k) \in Accounted \cup Range(wire'[n])
    <3>1. k \in 1 .. seq[n] /\ k <= e[3] /\ k \in Nat /\ e[3] \in Nat  BY SMTT(60), <1>3, <1>6, <1>7
    <3>2. Ev(n, k)[3] = k  BY DEF Ev
    <3>3. Ev(n, k) \notin Range(t)
      <4>1. SUFFICES ASSUME Ev(n, k) \in Range(t) PROVE FALSE  OBVIOUS
      <4>2. e[3] < k  BY <4>1, <3>2, <1>7
      <4>. QED  BY SMTT(60), <4>2, <3>1
    <3>. QED  BY <2>1, <3>1, <3>3, <1>7, <1>10
  <2>5. \A d \in Range(wire'[n]) : d[2] = run[n] => \A k \in 1 .. d[3] : Ev(n, k) \in Accounted \cup Range(wire'[n])
    BY <2>3, <2>4, <1>10
  <2>. QED  BY <2>2, <2>5, <1>2 DEF HeldInv, Ev
<1>13. RingInv(n)'  BY <1>1, <1>2 DEF NodeInv, RingInv
<1>14. ASSUME NEW m \in Sources, m # n PROVE NodeInv(m)'
  <2>1. chan'[m] = chan[m] /\ wire'[m] = wire[m]  BY <1>1, <1>2, <1>14 DEF StreamTypes
  <2>. QED  BY <2>1, <1>1, <1>2, Elsewhere
<1>15. CursorsInv'  BY <1>1, <1>2, CursorsStay
<1>16. spc[Entry] = "live"  BY <1>1, <1>4 DEF PeersInv
<1>17. PeersInv'  BY <1>1, <1>2, <1>16 DEF PeersInv
<1>. QED  BY <1>9, <1>11, <1>12, <1>13, <1>14, <1>15, <1>17 DEF FirehoseInv, NodeInv, CursorsInv

\* Consume: the merger has not seen the event, and nothing before it is missing.
LEMMA ConsumeKeeps ==
    ASSUME EventStreamAssumption, FirehoseInv, NEW n \in Sources, Consume(n)
    PROVE  FirehoseInv'
<1>. DEFINE e == Head(wire[n])
            t == Tail(wire[n])
<1>1. StreamTypes /\ CursorsInv /\ PeersInv /\ NodeInv(n) /\ \A m \in Sources : NodeInv(m)  BY Parts
<1>2. /\ run[n] \in Nat /\ seq[n] \in Nat /\ last[n] \in Nat /\ chan[n] \in Seq(Evt) /\ wire[n] \in Seq(Evt)
      /\ \A d \in Range(wire[n]) \cup Range(chan[n]) : d \in Evt /\ d[2] \in Nat /\ d[3] \in Nat
  BY <1>1, NodeTypes
<1>3. wire[n] # <<>> /\ spc[Entry] # "off"  BY DEF Consume
<1>4. /\ Rising(wire[n]) /\ Rising(chan[n])
      /\ \A d \in Range(wire[n]), f \in Range(chan[n]) : d[3] < f[3]
      /\ \A d \in Range(wire[n]) \cup Range(chan[n]) :
            /\ d[1] = n /\ d[2] <= run[n] /\ d[3] > last[n]
            /\ spc[n] # "off" => d[2] = run[n] /\ d[3] <= seq[n]
      /\ spc[n] # "live" => chan[n] = <<>>
      /\ spc[n] # "replay"
  BY <1>1, <1>3 DEF NodeInv, WayInv
<1>5. /\ e \in Range(wire[n]) /\ t \in Seq(Evt) /\ Range(wire[n]) = {e} \cup Range(t)
      /\ Rising(t) /\ \A d \in Range(t) : e[3] < d[3]
  BY <1>2, <1>3, <1>4, TakeFirst
<1>6. /\ e \in Evt /\ e[2] \in Nat /\ e[3] \in Nat /\ e[1] = n /\ e[2] <= run[n] /\ e[3] > last[n]
      /\ spc[n] # "off" => e[2] = run[n] /\ e[3] <= seq[n]
  BY <1>2, <1>4, <1>5
<1>7. Id(e) = <<n, e[3]>> /\ Id(e) \notin seen
  <2>1. Id(e) = <<n, e[3]>>  BY <1>6 DEF Id
  <2>2. <<n, e[3]>> \in seen => e[3] <= last[n]  BY <1>1, <1>6 DEF PeersInv
  <2>3. ~ (e[3] <= last[n])  BY SMTT(60), <1>2, <1>6
  <2>. QED  BY <2>1, <2>2, <2>3
<1>8. /\ run' = run /\ seq' = seq /\ ring' = ring /\ spc' = spc /\ chan' = chan /\ since' = since
      /\ wire' = [wire EXCEPT ![n] = t] /\ seen' = seen \cup {<<n, e[3]>>}
      /\ got' = got \cup {e} /\ cursor' = e /\ last' = [last EXCEPT ![n] = e[3]]
      /\ gap' = gap /\ dropped' = dropped
  BY <1>7 DEF Consume, bus
<1>9. wire'[n] = t /\ last'[n] = e[3] /\ Accounted' = Accounted \cup {e} /\ Accounted \subseteq Accounted'
  BY <1>1, <1>8 DEF StreamTypes, Accounted
<1>. HIDE DEF e, t
<1>10. StreamTypes'
  <2>1. wire' \in [Sources -> Seq(Evt)] /\ last' \in [Sources -> Nat]  BY <1>1, <1>5, <1>6, <1>8 DEF StreamTypes
  <2>. QED  BY <2>1, <1>1, <1>6, <1>8 DEF StreamTypes
<1>11. WayInv(n)'
  <2>1. \A d \in Range(wire'[n]) \cup Range(chan'[n]) : d \in Range(wire[n]) \cup Range(chan[n]) /\ d[3] > e[3]
    <3>1. \A d \in Range(t) \cup Range(chan[n]) : d \in Range(wire[n]) \cup Range(chan[n]) /\ e[3] < d[3] /\ d[3] \in Nat
      BY <1>2, <1>4, <1>5
    <3>2. \A d \in Range(t) \cup Range(chan[n]) : d[3] > e[3]  BY <3>1, <1>6
    <3>. QED  BY <3>1, <3>2, <1>8, <1>9
  <2>2. \A d \in Range(wire'[n]), f \in Range(chan'[n]) : d[3] < f[3]  BY <1>4, <1>5, <1>8, <1>9
  <2>3. Rising(wire'[n]) /\ Rising(chan'[n])  BY <1>4, <1>5, <1>8, <1>9
  <2>. QED  BY <2>1, <2>2, <2>3, <1>4, <1>6, <1>8, <1>9 DEF WayInv
<1>12. HeldInv(n)'
  <2>1. Accounted \cup Range(wire[n]) = Accounted' \cup Range(wire'[n])  BY <1>5, <1>9
  <2>2. \A d \in Range(wire'[n]) : d \in Range(wire[n])  BY <1>5, <1>9
  <2>3. \A k \in 1 .. seq[n] : \/ Ev(n, k) \in Accounted \cup Range(wire[n]) \cup Range(chan[n])
                               \/ spc[n] \in {"off", "replay"} /\ k > seq[n] - Len(ring[n])
    BY <1>1 DEF NodeInv, HeldInv
  <2>4. \A d \in Range(wire[n]) : d[2] = run[n] => \A k \in 1 .. d[3] : Ev(n, k) \in Accounted \cup Range(wire[n])
    BY <1>1 DEF NodeInv, HeldInv
  <2>. QED  BY <2>1, <2>2, <2>3, <2>4, <1>8 DEF HeldInv, Ev
<1>13. RingInv(n)'  BY <1>1, <1>8 DEF NodeInv, RingInv
<1>14. ASSUME NEW m \in Sources, m # n PROVE NodeInv(m)'
  <2>1. wire'[m] = wire[m] /\ last'[m] = last[m]  BY <1>1, <1>8, <1>14 DEF StreamTypes
  <2>. QED  BY <2>1, <1>1, <1>8, <1>9, Elsewhere
<1>15. CursorsInv'
  <2>1. ASSUME e[2] = run[n], NEW k \in 1 .. e[3] PROVE Ev(n, k) \in Accounted'
    <3>1. Ev(n, k) \in Accounted \cup Range(wire[n])  BY <2>1, <1>1, <1>5 DEF NodeInv, HeldInv
    <3>2. Ev(n, k)[3] = k /\ ~ (e[3] < k)  BY SMTT(60), <1>6 DEF Ev
    <3>3. Ev(n, k) \notin Range(t)  BY <3>2, <1>5
    <3>. QED  BY <3>1, <3>3, <1>5, <1>9
  <2>2. CursorInv(cursor)'  BY <2>1, <1>6, <1>8 DEF CursorInv, Ev
  <2>3. CursorInv(since)'  BY <1>1, <1>8, <1>9 DEF CursorsInv, CursorInv, Ev
  <2>. QED  BY <2>2, <2>3 DEF CursorsInv
<1>16. PeersInv'
  <2>1. ASSUME NEW m \in Sources, NEW k \in Nat, <<m, k>> \in seen' PROVE k <= last'[m]
    <3>1. CASE <<m, k>> \in seen
      <4>1. k <= last[m]  BY <3>1, <1>1 DEF PeersInv
      <4>2. CASE m = n
        <5>1. k <= e[3]  BY SMTT(60), <4>1, <4>2, <1>2, <1>6
        <5>. QED  BY <5>1, <4>2, <1>9
      <4>3. CASE m # n  BY <4>1, <4>3, <1>1, <1>8 DEF StreamTypes
      <4>. QED  BY <4>2, <4>3
    <3>2. CASE <<m, k>> = <<n, e[3]>>
      <4>1. m = n /\ k = e[3] /\ e[3] <= e[3]  BY SMTT(60), <3>2, <1>6
      <4>. QED  BY <4>1, <1>9
    <3>. QED  BY <2>1, <3>1, <3>2, <1>8
  <2>2. \A m \in Sources : m # n => wire'[m] = wire[m] /\ last'[m] = last[m]  BY <1>1, <1>8 DEF StreamTypes
  <2>3. spc[Entry] # "live" => n = Entry  BY <1>1, <1>3 DEF PeersInv
  <2>4. spc[Entry] # "live" => \A m \in Sources : m # Entry => spc[m] = "off" /\ wire'[m] = <<>>
    BY <2>2, <2>3, <1>1 DEF PeersInv
  <2>5. spc[Entry] \in {"replay", "subscribe"} => \A m \in Sources : m # Entry => last'[m] = 0
    BY <2>2, <2>3, <1>1 DEF PeersInv
  <2>. QED  BY <2>1, <2>4, <2>5, <1>3, <1>8 DEF PeersInv
<1>. QED  BY <1>10, <1>11, <1>12, <1>13, <1>14, <1>15, <1>16 DEF FirehoseInv, NodeInv, CursorsInv

\* Replay: the backfill is the end of the run behind the cursor, and what comes
\* before it is known or was another cursor's.
LEMMA ReplayKeeps ==
    ASSUME EventStreamAssumption, FirehoseInv, NEW n \in Sources, Replay(n)
    PROVE  FirehoseInv'
<1>. DEFINE out == Backfill(n)
            k0 == SinceSeq
            foreign == since # NoCursor /\ (since[1] # n \/ since[2] # run[n])
            direct == n = Entry /\ out # <<>>
<1>1. StreamTypes /\ CursorsInv /\ PeersInv /\ NodeInv(n) /\ \A m \in Sources : NodeInv(m)  BY Parts
<1>2. /\ run[n] \in Nat /\ seq[n] \in Nat /\ wire[n] \in Seq(Evt) /\ ring[n] \in Seq(Evt)
  BY <1>1, NodeTypes
<1>3. spc[n] = "replay" /\ wire[n] = <<>> /\ chan[n] = <<>> /\ last[n] = 0
  BY <1>1 DEF Replay, NodeInv, WayInv
<1>4. k0 \in Nat
  <2>1. since # NoCursor => since[3] \in Nat  BY <1>1, EventParts DEF StreamTypes
  <2>2. 0 \in Nat  OBVIOUS
  <2>. QED  BY <2>1, <2>2 DEF SinceSeq
<1>5. Ending(ring[n], n, run[n], seq[n])  BY <1>1 DEF NodeInv, RingInv
<1>6. /\ Ending(out, n, run[n], seq[n]) /\ Len(out) <= Len(ring[n])
      /\ out # <<>> => seq[n] - Len(out) >= k0
      /\ \A j \in Nat : j > seq[n] - Len(ring[n]) /\ j <= seq[n] /\ j > k0 => j > seq[n] - Len(out)
  BY <1>2, <1>4, <1>5, AfterIsEnding DEF Backfill
<1>7. /\ run' = run /\ seq' = seq /\ ring' = ring /\ chan' = chan /\ seen' = seen /\ since' = since /\ gap' = gap
      /\ spc' = [spc EXCEPT ![n] = "subscribe"]
      /\ dropped' = IF foreign THEN dropped \cup (Range(ring[n]) \ (Range(out) \cup got)) ELSE dropped
  BY DEF Replay, bus
<1>8. direct => /\ got' = got \cup Range(out) /\ cursor' = out[Len(out)] /\ wire' = wire
                /\ last' = [last EXCEPT ![n] = out[Len(out)][3]]
  BY DEF Replay
<1>9. ~ direct => /\ got' = got /\ cursor' = cursor /\ last' = last /\ wire' = [wire EXCEPT ![n] = @ \o out]
  BY DEF Replay, client
<1>. HIDE DEF out, k0, foreign
<1>10. /\ out \in Seq(Evt) /\ Len(out) \in Nat /\ Rising(out)
       /\ \A e \in Range(out) : e[1] = n /\ e[2] = run[n] /\ e[3] \in Nat /\ e[3] > seq[n] - Len(out) /\ e[3] <= seq[n]
  <2>1. out \in Seq(Evt)  BY <1>6 DEF Ending
  <2>2. Len(out) \in Nat  BY SMTT(60), <2>1
  <2>3. Ending(out, n, run[n], seq[n]) /\ seq[n] \in Nat  BY <1>2, <1>6
  <2>4. Rising(out)  BY <2>3, EndingRises
  <2>5. \A e \in Range(out) : /\ e[1] = n /\ e[2] = run[n] /\ e[3] \in Nat
                              /\ e[3] > seq[n] - Len(out) /\ e[3] <= seq[n] /\ e = <<n, run[n], e[3]>>
    BY SMTT(60), <2>3, EndingRises
  <2>. QED  BY <2>1, <2>2, <2>4, <2>5
<1>11. out # <<>> => out[Len(out)] \in Range(out) /\ out[Len(out)] = <<n, run[n], seq[n]>> /\ out[Len(out)][3] = seq[n]
  <2>. SUFFICES ASSUME out # <<>> PROVE out[Len(out)] \in Range(out) /\ out[Len(out)] = <<n, run[n], seq[n]>> /\ out[Len(out)][3] = seq[n]
    OBVIOUS
  <2>1. Len(out) \in 1 .. Len(out) /\ DOMAIN out = 1 .. Len(out)  BY SMTT(60), <1>10
  <2>2. out[Len(out)] = <<n, run[n], seq[n] - Len(out) + Len(out)>>  BY <2>1, <1>6 DEF Ending
  <2>3. seq[n] - Len(out) + Len(out) = seq[n]  BY SMTT(60), <1>2, <1>10
  <2>4. out[Len(out)] = <<n, run[n], seq[n]>>  BY <2>2, <2>3
  <2>5. out[Len(out)][3] = seq[n]  BY SMTT(60), <2>4
  <2>. QED  BY <2>1, <2>4, <2>5 DEF Range
<1>12. wire[n] \o out = out  BY SMTT(60), <1>3, <1>10
<1>13. wire'[n] = IF direct THEN <<>> ELSE out
  BY <1>1, <1>3, <1>8, <1>9, <1>12 DEF StreamTypes
<1>14. last'[n] = IF direct THEN seq[n] ELSE 0
  BY <1>1, <1>3, <1>8, <1>9, <1>11 DEF StreamTypes
<1>15. Accounted \subseteq Accounted'  BY <1>7, <1>8, <1>9 DEF Accounted
<1>16. StreamTypes'
  <2>1. spc' \in [Sources -> {"off", "replay", "subscribe", "live"}]  BY <1>1, <1>7 DEF StreamTypes
  <2>2. CASE direct
    <3>1. out[Len(out)] \in Evt  BY <2>2, <1>10, <1>11, RangeOfEvents
    <3>2. last' \in [Sources -> Nat]  BY <2>2, <1>1, <1>2, <1>8, <1>11 DEF StreamTypes
    <3>. QED  BY <2>1, <2>2, <3>1, <3>2, <1>1, <1>7, <1>8 DEF StreamTypes
  <2>3. CASE ~ direct
    <3>1. wire' \in [Sources -> Seq(Evt)]
      <4>1. wire' = [wire EXCEPT ![n] = out]  BY <2>3, <1>9, <1>12
      <4>. QED  BY <4>1, <1>1, <1>10 DEF StreamTypes
    <3>. QED  BY <2>1, <2>3, <3>1, <1>1, <1>7, <1>9 DEF StreamTypes
  <2>. QED  BY <2>2, <2>3
<1>17. spc'[n] = "subscribe" /\ chan'[n] = <<>>  BY <1>1, <1>3, <1>7 DEF StreamTypes
<1>18. ASSUME NEW k \in 1 .. seq[n] PROVE Ev(n, k) \in Accounted' \cup Range(wire'[n])
  <2>1. k \in Nat /\ k <= seq[n] /\ k >= 1  BY SMTT(60), <1>2
  <2>2. Ev(n, k) \in Accounted \/ k > seq[n] - Len(ring[n])
    BY <1>1, <1>3, Nothing DEF NodeInv, HeldInv
  <2>3. CASE k > seq[n] - Len(ring[n]) /\ k > k0
    <3>1. k > seq[n] - Len(out)  BY <2>1, <2>3, <1>6
    <3>2. Ev(n, k) \in Range(out)  BY <2>1, <3>1, <1>2, <1>6, EndingHas DEF Ev
    <3>. QED  BY <3>2, <1>8, <1>13 DEF Accounted
  <2>4. CASE k > seq[n] - Len(ring[n]) /\ ~ (k > k0)
    <3>1. Ev(n, k) \in Range(ring[n])  BY <2>1, <2>4, <1>2, <1>5, EndingHas DEF Ev
    <3>2. CASE foreign
      <4>1. Ev(n, k) \in dropped' \cup Range(out) \cup got  BY <3>1, <3>2, <1>7
      <4>. QED  BY <4>1, <1>8, <1>9, <1>13 DEF Accounted
    <3>3. CASE ~ foreign
      <4>1. since # NoCursor
        <5>1. since = NoCursor => k0 = 0  BY DEF SinceSeq, k0
        <5>2. k0 # 0  BY SMTT(60), <2>1, <2>4, <1>4
        <5>. QED  BY <5>1, <5>2
      <4>2. since[1] = n /\ since[2] = run[n] /\ k0 = since[3]  BY <4>1, <3>3 DEF foreign, SinceSeq, k0
      <4>3. k \in 1 .. since[3]  BY SMTT(60), <4>2, <2>1, <2>4, <1>4
      <4>4. Ev(n, k) \in Accounted  BY <4>1, <4>2, <4>3, <1>1 DEF CursorsInv, CursorInv
      <4>. QED  BY <4>4, <1>15
    <3>. QED  BY <3>2, <3>3
  <2>. QED  BY <2>2, <2>3, <2>4, <1>15
<1>19. WayInv(n)'
  <2>1. Rising(wire'[n]) /\ Rising(chan'[n]) /\ Range(chan'[n]) = {}  BY <1>10, <1>13, <1>17, Nothing
  <2>2. \A e \in Range(wire'[n]) : e[1] = n /\ e[2] = run[n] /\ e[3] \in Nat /\ e[3] > seq[n] - Len(out) /\ e[3] <= seq[n] /\ ~ direct
    BY <1>10, <1>13, Nothing
  <2>3. Len(out) <= seq[n]  BY <1>6 DEF Ending
  <2>4. \A e \in Range(wire'[n]) : e[3] > 0 /\ e[2] <= run[n]  BY SMTT(60), <2>2, <2>3, <1>2, <1>10
  <2>5. last'[n] <= seq[n]  BY SMTT(60), <1>2, <1>14
  <2>. QED  BY <2>1, <2>2, <2>4, <2>5, <1>7, <1>14, <1>17 DEF WayInv
<1>20. HeldInv(n)'
  <2>1. \A e \in Range(wire'[n]) : e[3] \in Nat /\ e[3] <= seq[n]  BY <1>10, <1>13, Nothing
  <2>2. \A e \in Range(wire'[n]) : \A k \in 1 .. e[3] : k \in 1 .. seq[n]  BY SMTT(60), <2>1, <1>2
  <2>. QED  BY <2>2, <1>7, <1>18 DEF HeldInv, Ev
<1>21. RingInv(n)'  BY <1>1, <1>7 DEF NodeInv, RingInv
<1>22. ASSUME NEW m \in Sources, m # n PROVE NodeInv(m)' /\ spc'[m] = spc[m] /\ wire'[m] = wire[m] /\ last'[m] = last[m]
  <2>1. spc'[m] = spc[m] /\ wire'[m] = wire[m] /\ last'[m] = last[m]  BY <1>1, <1>7, <1>8, <1>9, <1>22 DEF StreamTypes
  <2>. QED  BY <2>1, <1>1, <1>7, <1>15, Elsewhere
<1>23. CursorsInv'
  <2>1. CursorInv(since)'  BY <1>1, <1>7, <1>15 DEF CursorsInv, CursorInv, Ev
  <2>2. CASE direct
    <3>. DEFINE x == out[Len(out)]
    <3>1. x[1] = n /\ x[2] = run[n] /\ x[3] = seq[n] /\ x[2] <= run[n]  BY SMTT(60), <2>2, <1>2, <1>11
    <3>2. \A k \in 1 .. seq[n] : Ev(n, k) \in Accounted'  BY <2>2, <1>13, <1>18, Nothing
    <3>3. cursor' = x  BY <2>2, <1>8
    <3>. HIDE DEF x
    <3>4. CursorInv(cursor)'  BY <3>1, <3>2, <3>3, <1>7 DEF CursorInv, Ev
    <3>. QED  BY <2>1, <3>4 DEF CursorsInv
  <2>3. CASE ~ direct
    <3>1. CursorInv(cursor)'  BY <2>3, <1>1, <1>7, <1>9, <1>15 DEF CursorsInv, CursorInv, Ev
    <3>. QED  BY <2>1, <3>1 DEF CursorsInv
  <2>. QED  BY <2>2, <2>3
<1>24. PeersInv'
  <2>1. \A m \in Sources, k \in Nat : <<m, k>> \in seen => k <= last'[m]
    <3>. TAKE m \in Sources, k \in Nat
    <3>. HAVE <<m, k>> \in seen
    <3>1. k <= last[m]  BY <1>1 DEF PeersInv
    <3>2. CASE m = n
      <4>1. k <= 0  BY <3>1, <3>2, <1>3
      <4>2. k <= seq[n]  BY SMTT(60), <4>1, <1>2
      <4>. QED  BY <3>2, <4>1, <4>2, <1>14
    <3>3. CASE m # n  BY <3>1, <3>3, <1>22
    <3>. QED  BY <3>2, <3>3
  <2>2. CASE n = Entry
    <3>1. spc[Entry] = "replay" /\ spc'[Entry] = "subscribe"  BY <2>2, <1>3, <1>17
    <3>2. \A m \in Sources : m # Entry => spc'[m] = "off" /\ wire'[m] = <<>> /\ last'[m] = 0
      BY <2>2, <3>1, <1>1, <1>22 DEF PeersInv
    <3>. QED  BY <2>1, <3>1, <3>2, <1>7 DEF PeersInv
  <2>3. CASE n # Entry
    <3>1. spc[Entry] = "live"  BY <2>3, <1>1, <1>3 DEF PeersInv
    <3>2. spc'[Entry] = "live"  BY <2>3, <3>1, <1>22 DEF EventStreamAssumption
    <3>. QED  BY <2>1, <3>2, <1>7 DEF PeersInv
  <2>. QED  BY <2>2, <2>3
<1>. QED  BY <1>16, <1>19, <1>20, <1>21, <1>22, <1>23, <1>24 DEF FirehoseInv, NodeInv, CursorsInv

\* What hanging up does to a node that keeps its bus: what was on its way is in
\* the buffer, or accounted for.
LEMMA HangupKeeps ==
    ASSUME FirehoseInv, NEW m \in Sources, Hangup(ring'), run'[m] = run[m], seq'[m] = seq[m],
           ring'[m] = ring[m],
           last'[m] = last[m], \A x \in Sources : ring'[x] = ring[x] \/ ring'[x] = <<>>, got' = got, gap' = gap
    PROVE  NodeInv(m)' /\ Accounted \subseteq Accounted'
<1>1. StreamTypes /\ NodeInv(m) /\ \A x \in Sources : NodeInv(x)  BY Parts
<1>2. spc'[m] = "off" /\ chan'[m] = <<>> /\ wire'[m] = <<>>  BY DEF Hangup
<1>3. Accounted \subseteq Accounted'  BY DEF Hangup, Accounted
<1>4. RingInv(m)'  BY <1>1 DEF NodeInv, RingInv
<1>5. WayInv(m)'  BY <1>2, Nothing DEF WayInv
<1>6. seq[m] \in Nat  BY <1>1 DEF StreamTypes
<1>7. ASSUME NEW k \in 1 .. seq[m] PROVE Ev(m, k) \in Accounted' \/ k > seq[m] - Len(ring[m])
  <2>1. CASE Ev(m, k) \in Accounted  BY <2>1, <1>3
  <2>2. CASE Ev(m, k) \in Range(wire[m]) \cup Range(chan[m])
    <3>1. CASE Ev(m, k) \in UNION {Range(ring'[x]) : x \in Sources}
      <4>1. PICK x \in Sources : Ev(m, k) \in Range(ring'[x])  BY <3>1
      <4>2. Ev(m, k) \in Range(ring[x])  BY <4>1, Nothing
      <4>3. Ending(ring[x], x, run[x], seq[x]) /\ seq[x] \in Nat  BY <1>1 DEF NodeInv, RingInv, StreamTypes
      <4>4. Ev(m, k)[1] = x  BY SMTT(60), <4>2, <4>3, EndingRises
      <4>5. x = m  BY <4>4 DEF Ev
      <4>6. k \in Nat  BY SMTT(60), <1>6
      <4>. QED  BY <4>2, <4>3, <4>5, <4>6, EndingHas DEF Ev
    <3>2. CASE Ev(m, k) \notin UNION {Range(ring'[x]) : x \in Sources}
      <4>1. Ev(m, k) \in dropped'  BY <2>2, <3>2 DEF Hangup
      <4>. QED  BY <4>1 DEF Accounted
    <3>. QED  BY <3>1, <3>2
  <2>. QED  BY <2>1, <2>2, <1>1 DEF NodeInv, HeldInv
<1>8. HeldInv(m)'  BY <1>2, <1>7, Nothing DEF HeldInv, Ev
<1>. QED  BY <1>3, <1>4, <1>5, <1>8 DEF NodeInv

\* Hanging up leaves no stream.
LEMMA HungUp ==
    ASSUME StreamTypes, EventStreamAssumption, PeersInv, Hangup(ring'), seen' = seen, last' = last
    PROVE  PeersInv' /\ \A n \in Sources : spc'[n] = "off" /\ chan'[n] = <<>> /\ wire'[n] = <<>>
<1>1. \A n \in Sources : spc'[n] = "off" /\ chan'[n] = <<>> /\ wire'[n] = <<>>  BY DEF Hangup
<1>2. PeersInv'  BY <1>1 DEF PeersInv, EventStreamAssumption
<1>. QED  BY <1>1, <1>2

\* Disconnect
LEMMA DisconnectKeeps ==
    ASSUME EventStreamAssumption, FirehoseInv, Disconnect
    PROVE  FirehoseInv'
<1>1. StreamTypes /\ CursorsInv /\ PeersInv /\ \A m \in Sources : NodeInv(m)  BY Parts
<1>2. /\ run' = run /\ seq' = seq /\ ring' = ring /\ last' = last /\ cursor' = cursor /\ since' = since
      /\ seen' = seen /\ got' = got /\ gap' = gap
  BY DEF Disconnect, bus, client
<1>3. Hangup(ring')
  <2>1. Hangup(ring)  BY DEF Disconnect
  <2>. QED  BY <2>1, <1>2 DEF Hangup
<1>4. \A m \in Sources : NodeInv(m)' /\ Accounted \subseteq Accounted'  BY <1>2, <1>3, HangupKeeps
<1>5. Accounted \subseteq Accounted'  BY <1>4 DEF EventStreamAssumption
<1>6. PeersInv'  BY <1>1, <1>2, <1>3, HungUp
<1>7. StreamTypes'  BY <1>1, <1>2, <1>3, Nothing DEF StreamTypes, Hangup
<1>8. CursorsInv'  BY <1>1, <1>2, <1>5, CursorsStay
<1>. QED  BY <1>4, <1>6, <1>7, <1>8 DEF FirehoseInv, NodeInv, CursorsInv

\* A peer's stream fails: what is on the wire still comes.
LEMMA StreamFailsKeeps ==
    ASSUME EventStreamAssumption, FirehoseInv, NEW n \in Sources, StreamFails(n)
    PROVE  FirehoseInv'
<1>1. StreamTypes /\ CursorsInv /\ PeersInv /\ NodeInv(n) /\ \A m \in Sources : NodeInv(m)  BY Parts
<1>2. /\ run' = run /\ seq' = seq /\ ring' = ring /\ last' = last /\ cursor' = cursor /\ since' = since
      /\ seen' = seen /\ got' = got /\ gap' = gap /\ wire' = wire /\ n # Entry /\ spc[n] # "off"
      /\ spc' = [spc EXCEPT ![n] = "off"] /\ chan' = [chan EXCEPT ![n] = <<>>]
      /\ dropped' = dropped \cup (Range(chan[n]) \ Range(ring[n]))
  BY DEF StreamFails, bus, client
<1>3. spc'[n] = "off" /\ chan'[n] = <<>> /\ Accounted \subseteq Accounted'  BY <1>1, <1>2 DEF StreamTypes, Accounted
<1>4. StreamTypes'  BY <1>1, <1>2, Nothing DEF StreamTypes
<1>5. RingInv(n)'  BY <1>1, <1>2 DEF NodeInv, RingInv
<1>6. WayInv(n)'  BY <1>1, <1>2, <1>3, Nothing DEF NodeInv, WayInv
<1>7. HeldInv(n)'
  <2>1. seq[n] \in Nat /\ Ending(ring[n], n, run[n], seq[n])  BY <1>1 DEF NodeInv, RingInv, StreamTypes
  <2>2. ASSUME NEW k \in 1 .. seq[n], Ev(n, k) \in Range(ring[n]) PROVE k > seq[n] - Len(ring[n])
    <3>1. k \in Nat  BY SMTT(60), <2>1
    <3>. QED  BY <3>1, <2>1, <2>2, EndingHas DEF Ev
  <2>3. \A k \in 1 .. seq[n] : Ev(n, k) \in Accounted' \cup Range(wire[n]) \/ k > seq[n] - Len(ring[n])
    <3>. TAKE k \in 1 .. seq[n]
    <3>1. CASE Ev(n, k) \in Range(chan[n])  BY <3>1, <2>2, <1>2 DEF Accounted
    <3>2. CASE Ev(n, k) \notin Range(chan[n])  BY <3>2, <1>1, <1>3 DEF NodeInv, HeldInv
    <3>. QED  BY <3>1, <3>2
  <2>4. \A e \in Range(wire[n]) : e[2] = run[n] => \A k \in 1 .. e[3] : Ev(n, k) \in Accounted' \cup Range(wire[n])
    BY <1>1, <1>3 DEF NodeInv, HeldInv
  <2>. QED  BY <2>3, <2>4, <1>2, <1>3 DEF HeldInv, Ev
<1>8. ASSUME NEW m \in Sources, m # n PROVE NodeInv(m)' /\ spc'[m] = spc[m]
  <2>1. spc'[m] = spc[m] /\ chan'[m] = chan[m]  BY <1>1, <1>2, <1>8 DEF StreamTypes
  <2>. QED  BY <2>1, <1>1, <1>2, <1>3, Elsewhere
<1>9. CursorsInv'  BY <1>1, <1>2, <1>3, CursorsStay
<1>10. spc[Entry] = "live"  BY <1>1, <1>2 DEF PeersInv
<1>11. spc'[Entry] = "live"  BY <1>2, <1>8, <1>10 DEF EventStreamAssumption
<1>12. PeersInv'  BY <1>1, <1>2, <1>11 DEF PeersInv
<1>. QED  BY <1>4, <1>5, <1>6, <1>7, <1>8, <1>9, <1>12 DEF FirehoseInv, NodeInv, CursorsInv

\* Restart: no cursor and no event on the way is of the new run.
LEMMA RestartKeeps ==
    ASSUME EventStreamAssumption, FirehoseInv, NEW n \in Sources, Restart(n)
    PROVE  FirehoseInv'
<1>1. StreamTypes /\ CursorsInv /\ PeersInv /\ NodeInv(n) /\ \A m \in Sources : NodeInv(m)  BY Parts
<1>2. /\ run' = [run EXCEPT ![n] = @ + 1] /\ seq' = [seq EXCEPT ![n] = 0] /\ ring' = [ring EXCEPT ![n] = <<>>]
      /\ last' = last /\ cursor' = cursor /\ since' = since /\ seen' = seen /\ got' = got /\ gap' = gap
  BY DEF Restart, client
<1>3. n = Entry => Hangup(ring')  BY DEF Restart
<1>4. n # Entry => /\ spc' = [spc EXCEPT ![n] = "off"] /\ chan' = [chan EXCEPT ![n] = <<>>]
                   /\ wire' = wire /\ dropped' = dropped
  BY DEF Restart
<1>5. /\ run'[n] = run[n] + 1 /\ seq'[n] = 0 /\ ring'[n] = <<>>
      /\ \A m \in Sources : m # n => run'[m] = run[m] /\ seq'[m] = seq[m] /\ ring'[m] = ring[m]
  BY <1>1, <1>2 DEF StreamTypes
<1>6. ASSUME NEW m \in Sources, m # n PROVE NodeInv(m)'
  <2>1. CASE n = Entry
    <3>1. \A x \in Sources : ring'[x] = ring[x] \/ ring'[x] = <<>>  BY <1>5
    <3>. QED  BY <2>1, <3>1, <1>2, <1>3, <1>5, <1>6, HangupKeeps
  <2>2. CASE n # Entry
    <3>1. spc'[m] = spc[m] /\ chan'[m] = chan[m] /\ wire'[m] = wire[m] /\ Accounted \subseteq Accounted'
      BY <2>2, <1>1, <1>2, <1>4, <1>6 DEF StreamTypes, Accounted
    <3>. QED  BY <3>1, <1>1, <1>2, <1>5, <1>6, Elsewhere
  <2>. QED  BY <2>1, <2>2
<1>7. Accounted \subseteq Accounted'  BY <1>2, <1>3, <1>4 DEF Accounted, Hangup
<1>8. spc'[n] = "off" /\ chan'[n] = <<>> /\ (wire'[n] = wire[n] \/ wire'[n] = <<>>)
  <2>1. CASE n = Entry  BY <2>1, <1>3 DEF Hangup
  <2>2. CASE n # Entry  BY <2>2, <1>1, <1>4 DEF StreamTypes
  <2>. QED  BY <2>1, <2>2
<1>9. run[n] \in Nat /\ \A e \in Range(wire[n]) : e[2] \in Nat  BY <1>1, NodeTypes
<1>10. \A e \in Range(wire'[n]) : e \in Range(wire[n]) /\ e[1] = n /\ e[2] <= run[n] /\ e[3] > last[n]
  BY <1>1, <1>8, Nothing DEF NodeInv, WayInv
<1>11. \A e \in Range(wire'[n]) : e[2] <= run'[n] /\ e[2] # run'[n]
  <2>1. \A e \in Range(wire'[n]) : e[2] <= run[n] + 1 /\ e[2] # run[n] + 1  BY SMTT(60), <1>9, <1>10
  <2>. QED  BY <2>1, <1>5
<1>12. NodeInv(n)'
  <2>1. RingInv(n)'
    <3>1. Ending(<<>>, n, run'[n], 0)  BY SMTT(60) DEF Ending
    <3>. QED  BY <3>1, <1>5 DEF RingInv
  <2>2. WayInv(n)'
    <3>1. Rising(wire'[n])  BY <1>1, <1>8, Nothing DEF NodeInv, WayInv
    <3>. QED  BY <3>1, <1>2, <1>8, <1>10, <1>11, Nothing DEF WayInv
  <2>3. HeldInv(n)'
    <3>1. 1 .. seq'[n] = {}  BY SMTT(60), <1>5
    <3>. QED  BY <3>1, <1>11 DEF HeldInv
  <2>. QED  BY <2>1, <2>2, <2>3 DEF NodeInv
<1>13. StreamTypes'
  <2>1. run' \in [Sources -> Nat] /\ seq' \in [Sources -> Nat]  BY SMTT(60), <1>1, <1>2, <1>9 DEF StreamTypes
  <2>2. ring' \in [Sources -> Seq(Evt)]  BY <1>1, <1>2, Nothing DEF StreamTypes
  <2>3. CASE n = Entry
    <3>1. /\ spc' = [m \in Sources |-> "off"]
          /\ chan' = [m \in Sources |-> <<>>] /\ wire' = [m \in Sources |-> <<>>]
      BY <2>3, <1>3 DEF Hangup
    <3>2. spc' \in [Sources -> {"off", "replay", "subscribe", "live"}]  BY <3>1
    <3>3. chan' \in [Sources -> Seq(Evt)] /\ wire' \in [Sources -> Seq(Evt)]  BY <3>1, Nothing
    <3>. QED  BY <2>1, <2>2, <3>2, <3>3, <1>1, <1>2 DEF StreamTypes
  <2>4. CASE n # Entry  BY <2>1, <2>2, <2>4, <1>1, <1>2, <1>4, Nothing DEF StreamTypes
  <2>. QED  BY <2>3, <2>4
<1>14. CursorsInv'
  <2>1. ASSUME NEW x \in Evt, x[2] <= run[x[1]], x[2] = run[x[1]] => \A k \in 1 .. x[3] : Ev(x[1], k) \in Accounted
        PROVE  /\ x[2] <= run'[x[1]]
               /\ x[2] = run'[x[1]] => \A k \in 1 .. x[3] : <<x[1], run'[x[1]], k>> \in Accounted'
    <3>1. x[1] \in Sources /\ x[2] \in Nat  BY EventParts
    <3>2. CASE x[1] = n
      <4>1. x[2] <= run[n] + 1 /\ x[2] # run[n] + 1  BY SMTT(60), <3>1, <3>2, <2>1, <1>9
      <4>. QED  BY <4>1, <3>2, <1>5
    <3>3. CASE x[1] # n
      <4>1. run'[x[1]] = run[x[1]]  BY <3>1, <3>3, <1>5
      <4>. QED  BY <4>1, <2>1, <1>7 DEF Ev
    <3>. QED  BY <3>2, <3>3
  <2>2. cursor \in Evt \cup {NoCursor} /\ since \in Evt \cup {NoCursor}  BY <1>1 DEF StreamTypes
  <2>3. CursorInv(cursor)'  BY <2>1, <2>2, <1>1, <1>2 DEF CursorsInv, CursorInv, Ev
  <2>4. CursorInv(since)'  BY <2>1, <2>2, <1>1, <1>2 DEF CursorsInv, CursorInv, Ev
  <2>. QED  BY <2>3, <2>4 DEF CursorsInv
<1>15. PeersInv'
  <2>1. CASE n = Entry  BY <2>1, <1>1, <1>2, <1>3, HungUp
  <2>2. CASE n # Entry
    <3>1. spc'[Entry] = spc[Entry] /\ \A m \in Sources : spc'[m] = spc[m] \/ spc'[m] = "off"
      BY <2>2, <1>1, <1>4 DEF StreamTypes, EventStreamAssumption
    <3>. QED  BY <2>2, <3>1, <1>1, <1>2, <1>4 DEF PeersInv
  <2>. QED  BY <2>1, <2>2
<1>. QED  BY <1>6, <1>12, <1>13, <1>14, <1>15 DEF FirehoseInv, NodeInv, CursorsInv

\* The invariant holds at first.
LEMMA FirehoseStarts == EventStreamAssumption /\ FirehoseInit => FirehoseInv
<1>. SUFFICES ASSUME EventStreamAssumption, FirehoseInit PROVE FirehoseInv  OBVIOUS
<1>1. StreamTypes
  <2>1. 0 \in Nat  OBVIOUS
  <2>2. run \in [Sources -> Nat] /\ seq \in [Sources -> Nat] /\ last \in [Sources -> Nat]  BY <2>1 DEF FirehoseInit
  <2>3. ring \in [Sources -> Seq(Evt)] /\ chan \in [Sources -> Seq(Evt)] /\ wire \in [Sources -> Seq(Evt)]
    BY Nothing DEF FirehoseInit
  <2>. QED  BY <2>2, <2>3 DEF FirehoseInit, StreamTypes
<1>2. ASSUME NEW n \in Sources PROVE NodeInv(n)
  <2>1. run[n] = 0 /\ seq[n] = 0 /\ ring[n] = <<>> /\ spc[n] = "off" /\ chan[n] = <<>> /\ wire[n] = <<>> /\ last[n] = 0
    BY DEF FirehoseInit
  <2>2. RingInv(n)
    <3>1. Ending(<<>>, n, 0, 0)  BY SMTT(60) DEF Ending
    <3>. QED  BY <3>1, <2>1 DEF RingInv
  <2>3. WayInv(n)  BY <2>1, Nothing DEF WayInv
  <2>4. HeldInv(n)
    <3>1. 1 .. seq[n] = {}  BY SMTT(60), <2>1
    <3>. QED  BY <3>1, <2>1, Nothing DEF HeldInv
  <2>. QED  BY <2>2, <2>3, <2>4 DEF NodeInv
<1>3. CursorsInv  BY DEF CursorsInv, CursorInv, FirehoseInit
<1>4. PeersInv  BY DEF PeersInv, FirehoseInit, EventStreamAssumption
<1>. QED  BY <1>1, <1>2, <1>3, <1>4 DEF FirehoseInv, NodeInv, CursorsInv

\* Every step keeps it.
LEMMA FirehoseKeeps ==
    ASSUME EventStreamAssumption, FirehoseInv, [FirehoseNext]_firehoseVars
    PROVE  FirehoseInv'
<1>1. ASSUME NEW n \in Sources, Publish(n) PROVE FirehoseInv'  BY <1>1, PublishKeeps
<1>2. ASSUME NEW n \in Sources, FirehoseStep(n) PROVE FirehoseInv'
  BY <1>2, ReplayKeeps, SubscribeKeeps, ForwardKeeps, ConsumeKeeps DEF FirehoseStep
<1>3. ASSUME NEW n \in Sources, StreamFails(n) PROVE FirehoseInv'  BY <1>3, StreamFailsKeeps
<1>4. ASSUME NEW n \in Sources, Restart(n) PROVE FirehoseInv'  BY <1>4, RestartKeeps
<1>5. CASE Connect  BY <1>5, ConnectKeeps
<1>6. CASE Disconnect  BY <1>6, DisconnectKeeps
<1>7. CASE UNCHANGED firehoseVars
  <2>1. /\ run' = run /\ seq' = seq /\ ring' = ring /\ spc' = spc /\ chan' = chan /\ wire' = wire
        /\ seen' = seen /\ since' = since /\ cursor' = cursor /\ got' = got /\ last' = last
        /\ gap' = gap /\ dropped' = dropped
    BY <1>7 DEF firehoseVars, bus, client
  <2>2. StreamTypes /\ CursorsInv /\ PeersInv /\ \A m \in Sources : NodeInv(m)  BY Parts
  <2>3. Accounted \subseteq Accounted'  BY <2>1 DEF Accounted
  <2>4. \A m \in Sources : NodeInv(m)'  BY <2>1, <2>2, <2>3, Elsewhere
  <2>5. CursorsInv'  BY <2>1, <2>2, <2>3, CursorsStay
  <2>6. StreamTypes' /\ PeersInv'  BY <2>1, <2>2 DEF StreamTypes, PeersInv
  <2>. QED  BY <2>4, <2>5, <2>6 DEF FirehoseInv, NodeInv, CursorsInv
<1>. QED  BY <1>1, <1>2, <1>3, <1>4, <1>5, <1>6, <1>7 DEF FirehoseNext

\* The invariant implies the property.
LEMMA FirehoseIsFaithful == EventStreamAssumption /\ FirehoseInv => StreamIsFaithful
<1>. SUFFICES ASSUME EventStreamAssumption, FirehoseInv PROVE StreamIsFaithful  OBVIOUS
<1>1. StreamTypes /\ \A m \in Sources : NodeInv(m)  BY Parts
<1>2. PerNodeOrder
  <2>. SUFFICES ASSUME NEW n \in Sources, NEW i \in DOMAIN (wire[n] \o chan[n])
                PROVE  (wire[n] \o chan[n])[i][3] > IF i = 1 THEN last[n] ELSE (wire[n] \o chan[n])[i - 1][3]
    BY DEF PerNodeOrder
  <2>. DEFINE w == wire[n]
              c == chan[n]
              way == w \o c
  <2>1. /\ last[n] \in Nat /\ w \in Seq(Evt) /\ c \in Seq(Evt)
        /\ \A e \in Range(w) \cup Range(c) : e[3] \in Nat
    BY <1>1, NodeTypes
  <2>2. /\ Rising(w) /\ Rising(c) /\ \A d \in Range(w), e \in Range(c) : d[3] < e[3]
        /\ \A e \in Range(w) \cup Range(c) : e[3] > last[n]
    BY <1>1 DEF NodeInv, WayInv
  <2>. HIDE DEF w, c
  <2>3. /\ Len(w) \in Nat /\ Len(c) \in Nat /\ DOMAIN w = 1 .. Len(w) /\ DOMAIN c = 1 .. Len(c)
        /\ DOMAIN way = 1 .. Len(w) + Len(c)
        /\ \A j \in 1 .. Len(w) : way[j] = w[j]
    BY SMTT(60), <2>1
  <2>4. \A j \in 1 .. Len(w) + Len(c) : j > Len(w) => way[j] = c[j - Len(w)]  BY SMTT(60), <2>1
  <2>5. i \in 1 .. Len(w) + Len(c)  BY <2>3 DEF w, c
  <2>. HIDE DEF way
  <2>6. \A j \in 1 .. Len(w) : w[j] \in Range(w)  BY <2>3 DEF Range
  <2>7. \A j \in 1 .. Len(c) : c[j] \in Range(c)  BY <2>3 DEF Range
  <2>8. CASE i <= Len(w)
    <3>1. i \in 1 .. Len(w) /\ way[i] = w[i]  BY SMTT(60), <2>3, <2>5, <2>8
    <3>2. CASE i = 1  BY <3>1, <3>2, <2>2, <2>6 DEF w, c, way
    <3>3. CASE i # 1
      <4>1. i - 1 \in 1 .. Len(w) /\ i - 1 < i  BY SMTT(60), <3>1, <3>3, <2>3
      <4>2. way[i - 1] = w[i - 1] /\ w[i - 1][3] < w[i][3]  BY <3>1, <4>1, <2>2, <2>3 DEF Rising
      <4>3. w[i - 1][3] \in Nat /\ w[i][3] \in Nat  BY <3>1, <4>1, <2>1, <2>6
      <4>4. way[i][3] > way[i - 1][3]  BY <3>1, <4>2, <4>3
      <4>. QED  BY <4>4, <3>3 DEF w, c, way
    <3>. QED  BY <3>2, <3>3
  <2>9. CASE ~ (i <= Len(w))
    <3>1. i - Len(w) \in 1 .. Len(c) /\ i > Len(w)  BY SMTT(60), <2>3, <2>5, <2>9
    <3>2. way[i] = c[i - Len(w)] /\ c[i - Len(w)] \in Range(c)  BY <3>1, <2>4, <2>5, <2>7
    <3>3. CASE i = 1  BY <3>2, <3>3, <2>2 DEF w, c, way
    <3>4. CASE i # 1 /\ i = Len(w) + 1
      <4>1. i - 1 = Len(w) /\ Len(w) \in 1 .. Len(w)  BY SMTT(60), <3>4, <2>3, <2>5
      <4>2. way[i - 1] \in Range(w)  BY <4>1, <2>3, <2>6
      <4>3. way[i - 1][3] < way[i][3] /\ way[i - 1][3] \in Nat /\ way[i][3] \in Nat  BY <4>2, <3>2, <2>1, <2>2
      <4>4. way[i][3] > way[i - 1][3]  BY <4>3
      <4>. QED  BY <4>4, <3>4 DEF w, c, way
    <3>5. CASE i # 1 /\ i # Len(w) + 1
      <4>1. i - 1 \in 1 .. Len(w) + Len(c) /\ i - 1 > Len(w) /\ (i - 1) - Len(w) \in 1 .. Len(c)
            /\ (i - 1) - Len(w) < i - Len(w)
        BY SMTT(60), <3>1, <3>5, <2>3, <2>5
      <4>2. way[i - 1] = c[(i - 1) - Len(w)]  BY <4>1, <2>4
      <4>3. c[(i - 1) - Len(w)][3] < c[i - Len(w)][3]  BY <4>1, <3>1, <2>2 DEF Rising
      <4>4. c[(i - 1) - Len(w)][3] \in Nat /\ c[i - Len(w)][3] \in Nat  BY <4>1, <3>1, <2>1, <2>7
      <4>5. way[i][3] > way[i - 1][3]  BY <3>2, <4>2, <4>3, <4>4
      <4>. QED  BY <4>5, <3>5 DEF w, c, way
    <3>. QED  BY <3>3, <3>4, <3>5
  <2>. QED  BY <2>8, <2>9
<1>3. NothingElseIsLost
  <2>1. ASSUME Quiet, NEW n \in Sources, NEW k \in 1 .. seq[n] PROVE <<n, run[n], k>> \in got \cup gap \cup dropped
    <3>1. spc[n] = "live" /\ chan[n] = <<>> /\ wire[n] = <<>>  BY <2>1 DEF Quiet
    <3>2. Ev(n, k) \in Accounted \cup Range(wire[n]) \cup Range(chan[n])  BY <3>1, <1>1 DEF NodeInv, HeldInv
    <3>. QED  BY <3>1, <3>2, Nothing DEF Ev, Accounted
  <2>. QED  BY <2>1 DEF NothingElseIsLost
<1>. QED  BY <1>2, <1>3 DEF StreamIsFaithful

\* For any nodes, buffers and bounds: the buffer of a bus is the end of the log, a
\* stream is in order behind the client's last event, and whatever is neither
\* there nor buffered for the next backfill is accounted for.
THEOREM FirehoseInvariant == FirehoseSpec => []FirehoseInv
<1>1. FirehoseInit => FirehoseInv  BY FirehoseStarts, EventStreamAssumption
<1>2. FirehoseInv /\ [FirehoseNext]_firehoseVars => FirehoseInv'  BY FirehoseKeeps, EventStreamAssumption
<1>. QED  BY <1>1, <1>2, PTL DEF FirehoseSpec

\* The client gets the events of a node in order and never twice in a connection,
\* and misses only those it can account for.
THEOREM StreamIsAlwaysFaithful == FirehoseSpec => []StreamIsFaithful
<1>1. FirehoseInv => StreamIsFaithful  BY FirehoseIsFaithful, EventStreamAssumption
<1>. QED  BY <1>1, FirehoseInvariant, PTL

-----------------------------------------------------------------------------
(* Part 2: the way of a request *)

\* The node controls, and what only an admin may ask for.
Control == {"Cordon", "Uncordon", "Drain", "RemoveTemplate"}
Guarded == mutatingMethods \cup adminRoutes

\* The caller of s is an admin in the eyes of node n.
OwnAt(s, n) == s.cookie = "admin" \/ (s.key # None /\ RoleForKey[n][s.key] = "admin")

\* Where the HTTP server has a request, and no role token is made yet.
Front == {"http", "proxy", "proxied", "mux", "ask"}

IsCall(c) ==
    c \in [shape : {c.shape}, here : {c.here}, hops : {c.hops}, addr : {c.addr}, from : {c.from},
           role : {c.role}, authz : {c.authz}, stale : {c.stale}, answer : {c.answer}, pc : {c.pc}]

\* A request waits at its entry node or at the node it names; a role token was
\* made at one of them, and one that was made at the named node stays there.
Token(c) ==
    LET s == c.shape IN
    /\ c.pc \in Front => c.here \in {s.entry, s.target} /\ c.authz = None
    /\ (c.pc \in {"proxy", "mux"} /\ c.role = "admin") => OwnAt(s, c.here)
    /\ c.authz = "admin" => OwnAt(s, s.entry) \/ (c.here = s.target /\ OwnAt(s, s.target))
    /\ (c.pc \in {"dial", "invoke"} /\ c.authz = "admin") => OwnAt(s, s.entry)

\* What was decided of a request that is about to be handled; a coordinator's
\* own call is Provision.
Decided(c) ==
    LET s == c.shape IN
    /\ (c.pc \in {"dial", "handle"} /\ s.method \in Guarded) =>
          c.role = "admin" /\ (OwnAt(s, s.entry) \/ OwnAt(s, c.here))
    /\ c.pc = "ask" => s.method \in internalMethods
    /\ (c.pc = "handle" /\ s.method \in Control /\ s.target # None) => c.here = s.target

CallInv(c) ==
    /\ IsCall(c) /\ c.shape \in Shape /\ (c.shape.via = "node" => c.shape.method \in internalMethods)
    /\ Token(c) /\ Decided(c)

\* What the handlers that ran were asked, and by whom.
RanFor(s, x) ==
    /\ s.method \in Guarded => x.role = "admin" /\ (OwnAt(s, s.entry) \/ OwnAt(s, x.node))
    /\ (s.method \in Control /\ s.target # None) => x.node = s.target

RouteInv ==
    /\ DOMAIN call = Requests /\ \A r \in Requests : CallInv(call[r])
    /\ \A x \in ran : x.req \in Requests /\ RanFor(call[x.req].shape, x)

-----------------------------------------------------------------------------
\* The method tables: what is guarded is neither a read nor internal, and the
\* node controls are forwarded.
LEMMA Tables ==
    /\ \A m \in Guarded : m \notin internalMethods /\ m \notin readMethods /\ m \notin streamRoutes
    /\ \A m \in Control : /\ m \in Forwardable /\ m \notin internalMethods /\ isNodeControlMethod(m)
                          /\ m \notin adminRoutes /\ m \notin streamRoutes
<1>1. \A m \in mutatingMethods : m \notin internalMethods /\ m \notin readMethods /\ m \notin streamRoutes
  BY DEF mutatingMethods, internalMethods, readMethods, streamRoutes
<1>2. \A m \in adminRoutes : m \notin internalMethods /\ m \notin readMethods /\ m \notin streamRoutes
  BY DEF adminRoutes, internalMethods, readMethods, streamRoutes
<1>3. \A m \in Control : m \in Forwardable
  BY DEF Control, Forwardable
<1>4. \A m \in Control : m \notin internalMethods /\ m \notin adminRoutes /\ m \notin streamRoutes
  BY DEF Control, internalMethods, adminRoutes, streamRoutes
<1>5. \A m \in Control : isNodeControlMethod(m)
  BY DEF Control, isNodeControlMethod
<1> QED BY <1>1, <1>2, <1>3, <1>4, <1>5 DEF Guarded

\* None is no role.
LEMMA NoRole == None # "admin" /\ None # "read-only" /\ None # "node"
BY RequestsAssumption

\* A request that has been answered, or is about to leave, promises nothing.
LEMMA Started ==
    ASSUME NEW s \in Shape, s.via = "node" => s.method \in internalMethods
    PROVE  CallInv(Start(s)) /\ Start(s).shape = s
<1> DEFINE c == Start(s)
<1>1. /\ c.shape = s /\ c.here = s.entry /\ c.authz = None /\ c.role = None /\ IsCall(c)
      /\ c.pc \in {"http", "grpc", "ask"} /\ (c.pc = "ask" => s.via = "node")
  <2>1. s.via \in {"rest", "grpc", "node"}
    BY DEF Shape
  <2> QED BY <2>1 DEF Start, IsCall
<1> HIDE DEF c
<1>2. Token(c) /\ Decided(c)
  BY <1>1, NoRole DEF Token, Decided, Front
<1>3. CallInv(c) /\ c.shape = s
  BY <1>1, <1>2 DEF CallInv
<1> QED BY <1>3 DEF c

\* A step of one request that runs no handler.
LEMMA OneMoves ==
    ASSUME RouteInv, NEW r \in Requests, NEW new, CallInv(new), new.shape = call[r].shape,
           call' = [call EXCEPT ![r] = new], UNCHANGED ran
    PROVE  RouteInv'
<1>0. DOMAIN call = Requests
  BY DEF RouteInv
<1>1. DOMAIN call' = Requests /\ call'[r] = new /\ \A q \in Requests : q # r => call'[q] = call[q]
  BY <1>0
<1>2. \A q \in Requests : CallInv(call'[q]) /\ call'[q].shape = call[q].shape
  BY <1>1 DEF RouteInv
<1>3. \A x \in ran : x.req \in Requests /\ RanFor(call'[x.req].shape, x)
  BY <1>2 DEF RouteInv
<1>4. \A x \in ran' : x.req \in Requests /\ RanFor(call'[x.req].shape, x)
  BY <1>3
<1> QED BY <1>1, <1>2, <1>4 DEF RouteInv

\* A request is answered.
LEMMA AnswerKeeps ==
    ASSUME RouteInv, NEW r \in Requests, NEW a, Answer(r, a), UNCHANGED ran
    PROVE  RouteInv'
<1> DEFINE c == call[r]
<1> DEFINE new == [c EXCEPT !.pc = "done", !.answer = a]
<1>0. CallInv(c) /\ IsCall(c)
  BY DEF RouteInv, CallInv
<1>1. call' = [call EXCEPT ![r] = new]
  BY DEF Answer, Go
<1>2. CallInv(new) /\ new.shape = c.shape
  <2> HIDE DEF c
  <2>1. /\ new.shape = c.shape /\ new.here = c.here /\ new.authz = c.authz /\ new.pc = "done" /\ IsCall(new)
    BY <1>0 DEF IsCall
  <2> HIDE DEF new
  <2>2. Token(new) /\ Decided(new)
    BY <1>0, <2>1 DEF CallInv, Token, Decided, Front
  <2> QED BY <1>0, <2>1, <2>2 DEF CallInv
<1> HIDE DEF new
<1> QED BY <1>1, <1>2, OneMoves

-----------------------------------------------------------------------------
(* One lemma for each step of a request *)

\* The role the middleware finds is the caller's own, at this node.
LEMMA AuthenticateKeeps ==
    ASSUME RouteInv, NEW r \in Requests, Authenticate(r)
    PROVE  RouteInv'
<1> DEFINE c == call[r]
<1> DEFINE s == c.shape
<1> DEFINE role == IF s.key # None THEN RoleOf(c.here, s.key) ELSE Verify(c, s.cookie)
<1> DEFINE new == [c EXCEPT !.pc = "proxy", !.role = role]
<1>0. CallInv(c) /\ IsCall(c) /\ c.pc = "http" /\ UNCHANGED ran
  BY DEF RouteInv, CallInv, Authenticate, At
<1>1. \/ \E a : Answer(r, a)
      \/ call' = [call EXCEPT ![r] = new]
  BY DEF Authenticate, Go, shape, here
<1>2. role = "admin" => OwnAt(s, c.here)
  BY NoRole DEF RoleOf, Verify, OwnAt
<1>3. CallInv(new) /\ new.shape = c.shape
  <2> HIDE DEF c, role
  <2>1. /\ new.shape = c.shape /\ new.here = c.here /\ new.authz = c.authz
        /\ new.pc = "proxy" /\ new.role = role /\ IsCall(new)
    BY <1>0 DEF IsCall
  <2> HIDE DEF new
  <2>2. Token(new) /\ Decided(new)
    BY <1>0, <1>2, <2>1, NoRole DEF CallInv, Token, Decided, Front
  <2> QED BY <1>0, <2>1, <2>2 DEF CallInv
<1> HIDE DEF new
<1> QED BY <1>0, <1>1, <1>3, OneMoves, AnswerKeeps

LEMMA OwnerProxyKeeps ==
    ASSUME RouteInv, NEW r \in Requests, OwnerProxy(r)
    PROVE  RouteInv'
<1> DEFINE c == call[r]
<1> DEFINE stays == [c EXCEPT !.pc = "mux"]
<1> DEFINE leaves == [c EXCEPT !.pc = "proxied", !.addr = Addr(c.here, c.shape.target)]
<1>0. CallInv(c) /\ IsCall(c) /\ c.pc = "proxy" /\ UNCHANGED ran
  BY DEF RouteInv, CallInv, OwnerProxy, At
<1>1. \/ \E a : Answer(r, a)
      \/ call' = [call EXCEPT ![r] = stays]
      \/ call' = [call EXCEPT ![r] = leaves]
  BY DEF OwnerProxy, Go, shape, here
<1>2. CallInv(stays) /\ stays.shape = c.shape
  <2> HIDE DEF c
  <2>1. /\ stays.shape = c.shape /\ stays.here = c.here /\ stays.authz = c.authz
        /\ stays.pc = "mux" /\ stays.role = c.role /\ IsCall(stays)
    BY <1>0 DEF IsCall
  <2> HIDE DEF stays
  <2>2. Token(stays) /\ Decided(stays)
    BY <1>0, <2>1, NoRole DEF CallInv, Token, Decided, Front
  <2> QED BY <1>0, <2>1, <2>2 DEF CallInv
<1>3. CallInv(leaves) /\ leaves.shape = c.shape
  <2> HIDE DEF c
  <2>1. /\ leaves.shape = c.shape /\ leaves.here = c.here /\ leaves.authz = c.authz
        /\ leaves.pc = "proxied" /\ leaves.role = c.role /\ IsCall(leaves)
    BY <1>0 DEF IsCall
  <2> HIDE DEF leaves
  <2>2. Token(leaves) /\ Decided(leaves)
    BY <1>0, <2>1, NoRole DEF CallInv, Token, Decided, Front
  <2> QED BY <1>0, <2>1, <2>2 DEF CallInv
<1> HIDE DEF stays, leaves
<1> QED BY <1>0, <1>1, <1>2, <1>3, OneMoves, AnswerKeeps

LEMMA ProxiedKeeps ==
    ASSUME RouteInv, NEW r \in Requests, Proxied(r)
    PROVE  RouteInv'
<1> DEFINE c == call[r]
<1> DEFINE new == [c EXCEPT !.pc = "http", !.here = c.shape.target, !.hops = @ + 1]
<1>0. CallInv(c) /\ IsCall(c) /\ c.pc = "proxied" /\ UNCHANGED ran
  BY DEF RouteInv, CallInv, Proxied, At
<1>1. \/ \E a : Answer(r, a)
      \/ call' = [call EXCEPT ![r] = new]
  BY DEF Proxied, Go, shape
<1>2. CallInv(new) /\ new.shape = c.shape
  <2> HIDE DEF c
  <2>1. /\ new.shape = c.shape /\ new.here = c.shape.target /\ new.authz = c.authz
        /\ new.pc = "http" /\ new.role = c.role /\ IsCall(new)
    BY <1>0 DEF IsCall
  <2> HIDE DEF new
  <2>2. Token(new) /\ Decided(new)
    BY <1>0, <2>1, NoRole DEF CallInv, Token, Decided, Front
  <2> QED BY <1>0, <2>1, <2>2 DEF CallInv
<1> HIDE DEF new
<1> QED BY <1>0, <1>1, <1>2, OneMoves, AnswerKeeps

\* A terminal or a file route is handled for an admin only; the gateway's token
\* carries the role the middleware found at this node.
LEMMA MuxKeeps ==
    ASSUME RouteInv, NEW r \in Requests, Mux(r)
    PROVE  RouteInv'
<1> DEFINE c == call[r]
<1> DEFINE local == [c EXCEPT !.pc = "handle"]
<1> DEFINE loop == [c EXCEPT !.pc = "grpc", !.authz = c.role, !.stale = FALSE]
<1>0. CallInv(c) /\ IsCall(c) /\ c.pc = "mux" /\ UNCHANGED ran
  BY DEF RouteInv, CallInv, Mux, At
<1>1. \/ \E a : Answer(r, a)
      \/ /\ call' = [call EXCEPT ![r] = local]
         /\ c.shape.method \in adminRoutes => c.role = "admin"
         /\ c.shape.method \in adminRoutes \/ c.shape.method \in streamRoutes
      \/ call' = [call EXCEPT ![r] = loop]
  BY DEF Mux, Go, shape, RequireRole
<1>2. ASSUME c.shape.method \in adminRoutes => c.role = "admin",
             c.shape.method \in adminRoutes \/ c.shape.method \in streamRoutes
      PROVE  CallInv(local) /\ local.shape = c.shape
  <2> HIDE DEF c
  <2>1. /\ local.shape = c.shape /\ local.here = c.here /\ local.authz = c.authz
        /\ local.pc = "handle" /\ local.role = c.role /\ IsCall(local)
    BY <1>0 DEF IsCall
  <2> HIDE DEF local
  <2>2. Token(local)
    BY <1>0, <2>1, NoRole DEF CallInv, Token, Front
  <2>3. c.shape.method \notin Control
    BY <1>2, Tables
  <2>4. c.shape.method \in Guarded => c.shape.method \in adminRoutes
    BY <1>2, Tables
  <2>5. c.role = "admin" => OwnAt(c.shape, c.here)
    BY <1>0 DEF CallInv, Token
  <2>6. Decided(local)
    BY <1>2, <2>1, <2>3, <2>4, <2>5 DEF Decided
  <2> QED BY <1>0, <2>1, <2>2, <2>6 DEF CallInv
<1>3. CallInv(loop) /\ loop.shape = c.shape
  <2> HIDE DEF c
  <2>1. /\ loop.shape = c.shape /\ loop.here = c.here /\ loop.authz = c.role
        /\ loop.pc = "grpc" /\ loop.role = c.role /\ IsCall(loop)
    BY <1>0 DEF IsCall
  <2> HIDE DEF loop
  <2>2. c.here \in {c.shape.entry, c.shape.target} /\ (c.role = "admin" => OwnAt(c.shape, c.here))
    BY <1>0 DEF CallInv, Token, Front
  <2>3. Token(loop) /\ Decided(loop)
    BY <2>1, <2>2 DEF Token, Decided, Front
  <2> QED BY <1>0, <2>1, <2>3 DEF CallInv
<1> HIDE DEF local, loop
<1>4. CASE \E a : Answer(r, a)
  BY <1>0, <1>4, AnswerKeeps
<1>5. CASE /\ call' = [call EXCEPT ![r] = local]
           /\ c.shape.method \in adminRoutes => c.role = "admin"
           /\ c.shape.method \in adminRoutes \/ c.shape.method \in streamRoutes
  BY <1>0, <1>2, <1>5, OneMoves
<1>6. CASE call' = [call EXCEPT ![r] = loop]
  BY <1>0, <1>3, <1>6, OneMoves
<1> QED BY <1>1, <1>4, <1>5, <1>6

\* A coordinator's own RPC is Provision, which is not guarded.
LEMMA AskKeeps ==
    ASSUME RouteInv, NEW r \in Requests, Ask(r)
    PROVE  RouteInv'
<1> DEFINE c == call[r]
<1> DEFINE new == [c EXCEPT !.pc = "dial", !.addr = Addr(c.here, c.shape.target)]
<1>0. CallInv(c) /\ IsCall(c) /\ c.pc = "ask" /\ UNCHANGED ran
  BY DEF RouteInv, CallInv, Ask, At
<1>1. \/ \E a : Answer(r, a)
      \/ call' = [call EXCEPT ![r] = new]
  BY DEF Ask, Go, shape, here
<1>2. c.shape.method \notin Guarded
  BY <1>0, Tables DEF CallInv, Decided
<1>3. CallInv(new) /\ new.shape = c.shape
  <2> HIDE DEF c
  <2>1. /\ new.shape = c.shape /\ new.here = c.here /\ new.authz = c.authz
        /\ new.pc = "dial" /\ new.role = c.role /\ IsCall(new)
    BY <1>0 DEF IsCall
  <2> HIDE DEF new
  <2>2. Token(new) /\ Decided(new)
    BY <1>0, <1>2, <2>1, NoRole DEF CallInv, Token, Decided, Front
  <2> QED BY <1>0, <2>1, <2>2 DEF CallInv
<1> HIDE DEF new
<1> QED BY <1>0, <1>1, <1>3, OneMoves, AnswerKeeps

\* The interceptors let a guarded method pass for an admin only, and send a node
\* control either to the node it names or nowhere.
LEMMA UnaryKeeps ==
    ASSUME RouteInv, NEW r \in Requests, Unary(r)
    PROVE  RouteInv'
<1> DEFINE c == call[r]
<1> DEFINE s == c.shape
<1> DEFINE role == authenticate(c.here, c, s.key)
<1> DEFINE route == Route(c.here, s.method, s.target)
<1> DEFINE onward == IF route = "self" THEN "handle" ELSE "dial"
<1> DEFINE to == IF route = "self" THEN c.addr ELSE Addr(c.here, s.target)
<1> DEFINE new == [c EXCEPT !.role = role, !.pc = onward, !.addr = to]
<1>0. CallInv(c) /\ IsCall(c) /\ c.pc = "grpc" /\ UNCHANGED ran
  BY DEF RouteInv, CallInv, Unary, At
<1>1. \/ \E a : Answer(r, a)
      \/ /\ call' = [call EXCEPT ![r] = new]
         /\ authorize(s.method, role) /\ route # "nowhere"
  BY DEF Unary, Go, shape
<1>2. CASE \E a : Answer(r, a)
  BY <1>0, <1>2, AnswerKeeps
<1>3. CASE /\ call' = [call EXCEPT ![r] = new]
           /\ authorize(s.method, role) /\ route # "nowhere"
  <2>1. s.method \in Guarded => role = "admin"
    BY <1>3, Tables DEF authorize
  <2>2. role = "admin" => c.authz = "admin" \/ OwnAt(s, c.here)
    BY NoRole DEF authenticate, RoleOf, OwnAt
  <2>3. onward = "dial" => c.here # s.target
    BY DEF Route, IsLocal
  <2>4. (onward = "handle" /\ s.method \in Control /\ s.target # None) => c.here = s.target
    BY <1>3, Tables DEF Route, IsLocal
  <2>5. onward \in {"handle", "dial"}
    OBVIOUS
  <2>6. CallInv(new) /\ new.shape = c.shape
    <3> HIDE DEF c, role, onward, to
    <3>1. /\ new.shape = c.shape /\ new.here = c.here /\ new.authz = c.authz
          /\ new.pc = onward /\ new.role = role /\ IsCall(new)
      BY <1>0 DEF IsCall
    <3> HIDE DEF new
    <3>2. c.authz = "admin" => OwnAt(s, s.entry) \/ (c.here = s.target /\ OwnAt(s, s.target))
      BY <1>0 DEF CallInv, Token
    <3>3. Token(new)
      BY <2>3, <2>5, <3>1, <3>2 DEF Token, Front
    <3>4. Decided(new)
      BY <2>1, <2>2, <2>4, <2>5, <3>1, <3>2 DEF Decided
    <3> QED BY <1>0, <3>1, <3>3, <3>4 DEF CallInv
  <2> HIDE DEF new
  <2> QED BY <1>0, <1>3, <2>6, OneMoves
<1> QED BY <1>1, <1>2, <1>3

\* A node control that was dialled is forwarded, never handled here.
LEMMA DialKeeps ==
    ASSUME RouteInv, NEW r \in Requests, Dial(r)
    PROVE  RouteInv'
<1> DEFINE c == call[r]
<1> DEFINE onward == IF c.shape.method \in Forwardable \cup internalMethods THEN "invoke" ELSE "handle"
<1> DEFINE new == [c EXCEPT !.pc = onward]
<1>0. CallInv(c) /\ IsCall(c) /\ c.pc = "dial" /\ UNCHANGED ran
  BY DEF RouteInv, CallInv, Dial, At
<1>1. \/ \E a : Answer(r, a)
      \/ call' = [call EXCEPT ![r] = new]
  BY DEF Dial, Go, shape
<1>2. onward \in {"invoke", "handle"} /\ (onward = "handle" => c.shape.method \notin Control)
  BY Tables
<1>3. CallInv(new) /\ new.shape = c.shape
  <2> HIDE DEF c, onward
  <2>1. /\ new.shape = c.shape /\ new.here = c.here /\ new.authz = c.authz
        /\ new.pc = onward /\ new.role = c.role /\ IsCall(new)
    BY <1>0 DEF IsCall
  <2> HIDE DEF new
  <2>2. Token(new)
    BY <1>0, <1>2, <2>1, NoRole DEF CallInv, Token, Front
  <2>3. Decided(new)
    BY <1>0, <1>2, <2>1, NoRole DEF CallInv, Decided
  <2> QED BY <1>0, <2>1, <2>2, <2>3 DEF CallInv
<1> HIDE DEF new
<1> QED BY <1>0, <1>1, <1>3, OneMoves, AnswerKeeps

\* The role token that travels was made at the entry node.
LEMMA InvokeKeeps ==
    ASSUME RouteInv, NEW r \in Requests, Invoke(r)
    PROVE  RouteInv'
<1> DEFINE c == call[r]
<1> DEFINE pin == pool[c.here][c.addr]
<1> DEFINE new == [c EXCEPT !.pc = "grpc", !.here = pin, !.from = c.here, !.hops = @ + 1]
<1>0. CallInv(c) /\ IsCall(c) /\ c.pc = "invoke" /\ UNCHANGED ran
  BY DEF RouteInv, CallInv, Invoke, At
<1>1. \/ \E a : Answer(r, a)
      \/ call' = [call EXCEPT ![r] = new]
  BY DEF Invoke, Go
<1>2. CallInv(new) /\ new.shape = c.shape
  <2> HIDE DEF c, pin
  <2>1. /\ new.shape = c.shape /\ new.here = pin /\ new.authz = c.authz
        /\ new.pc = "grpc" /\ new.role = c.role /\ IsCall(new)
    BY <1>0 DEF IsCall
  <2> HIDE DEF new
  <2>2. Token(new) /\ Decided(new)
    BY <1>0, <2>1, NoRole DEF CallInv, Token, Decided, Front
  <2> QED BY <1>0, <2>1, <2>2 DEF CallInv
<1> HIDE DEF new
<1> QED BY <1>0, <1>1, <1>2, OneMoves, AnswerKeeps

\* What was decided of a request is what its handler runs for.
LEMMA HandleKeeps == ASSUME RouteInv, NEW r \in Requests, Handle(r) PROVE RouteInv'
<1> DEFINE c == call[r]
<1> DEFINE x == [req |-> r, node |-> c.here, role |-> c.role]
<1>0. CallInv(c) /\ IsCall(c) /\ c.pc = "handle" /\ ran' = ran \cup {x}
  BY DEF RouteInv, CallInv, Handle, At
<1>1. PICK a : call' = [call EXCEPT ![r] = [c EXCEPT !.pc = "done", !.answer = a]]
  BY DEF Handle, Answer, Go
<1> DEFINE new == [c EXCEPT !.pc = "done", !.answer = a]
<1>2. x.req = r /\ x.node = c.here /\ x.role = c.role
  OBVIOUS
<1>3. /\ new.shape = c.shape /\ new.here = c.here /\ new.authz = c.authz /\ new.pc = "done" /\ IsCall(new)
  <2> HIDE DEF c
  <2> QED BY <1>0 DEF IsCall
<1> HIDE DEF x, new
<1>4. CallInv(new)
  <2> HIDE DEF c
  <2>1. Token(new) /\ Decided(new)
    BY <1>0, <1>3 DEF CallInv, Token, Decided, Front
  <2> QED BY <1>0, <1>3, <2>1 DEF CallInv
<1>5. RanFor(c.shape, x)
  <2> HIDE DEF c
  <2> QED BY <1>0, <1>2 DEF CallInv, Decided, RanFor
<1>6. DOMAIN call = Requests
  BY DEF RouteInv
<1>7. call' = [call EXCEPT ![r] = new]
  BY <1>1 DEF new
<1>8. DOMAIN call' = Requests /\ call'[r] = new /\ \A q \in Requests : q # r => call'[q] = call[q]
  <2> HIDE DEF c
  <2> QED BY <1>6, <1>7
<1>9. \A q \in Requests : CallInv(call'[q]) /\ call'[q].shape = call[q].shape
  BY <1>3, <1>4, <1>8 DEF RouteInv
<1>10. \A y \in ran' : y.req \in Requests /\ RanFor(call[y.req].shape, y)
  BY <1>0, <1>2, <1>5 DEF RouteInv
<1>11. \A y \in ran' : y.req \in Requests /\ RanFor(call'[y.req].shape, y)
  BY <1>9, <1>10
<1> QED BY <1>8, <1>9, <1>11 DEF RouteInv

LEMMA ExpireKeeps == ASSUME RouteInv, NEW r \in Requests, Expire(r) PROVE RouteInv'
<1> DEFINE c == call[r]
<1> DEFINE new == [c EXCEPT !.stale = TRUE]
<1>0. CallInv(c) /\ IsCall(c) /\ UNCHANGED ran /\ call' = [call EXCEPT ![r] = new]
  BY DEF RouteInv, CallInv, Expire, Go
<1>1. CallInv(new) /\ new.shape = c.shape
  <2> HIDE DEF c
  <2>1. /\ new.shape = c.shape /\ new.here = c.here /\ new.authz = c.authz
        /\ new.pc = c.pc /\ new.role = c.role /\ IsCall(new)
    BY <1>0 DEF IsCall
  <2> HIDE DEF new
  <2>2. Token(new) /\ Decided(new)
    BY <1>0, <2>1 DEF CallInv, Token, Decided
  <2> QED BY <1>0, <2>1, <2>2 DEF CallInv
<1> HIDE DEF new
<1> QED BY <1>0, <1>1, OneMoves

LEMMA RetryKeeps ==
    ASSUME RouteInv, NEW r \in Requests, Retry(r)
    PROVE  RouteInv'
<1> DEFINE s == call[r].shape
<1>0. UNCHANGED ran /\ call' = [call EXCEPT ![r] = Start(s)]
  BY DEF Retry, Go, shape
<1>1. s \in Shape /\ (s.via = "node" => s.method \in internalMethods)
  BY DEF RouteInv, CallInv
<1>2. CallInv(Start(s)) /\ Start(s).shape = s
  BY <1>1, Started
<1> QED BY <1>0, <1>2, OneMoves

\* A node that goes down breaks off the requests it was serving.
LEMMA StopKeeps == ASSUME RouteInv, NEW n \in Nodes, Stop(n) PROVE RouteInv'
<1>0. UNCHANGED ran
  BY DEF Stop
<1>1. DOMAIN call' = Requests
  BY DEF Stop
<1>2. \A q \in Requests : \/ call'[q] = call[q]
                          \/ call'[q] = [call[q] EXCEPT !.pc = "done", !.answer = "unavailable"]
  BY DEF Stop
<1>3. ASSUME NEW q \in Requests PROVE CallInv(call'[q]) /\ call'[q].shape = call[q].shape
  <2> DEFINE c == call[q]
  <2> DEFINE new == [c EXCEPT !.pc = "done", !.answer = "unavailable"]
  <2>0. CallInv(c) /\ IsCall(c)
    BY DEF RouteInv, CallInv
  <2>1. CallInv(new) /\ new.shape = c.shape
    <3> HIDE DEF c
    <3>1. /\ new.shape = c.shape /\ new.here = c.here /\ new.authz = c.authz /\ new.pc = "done" /\ IsCall(new)
      BY <2>0 DEF IsCall
    <3> HIDE DEF new
    <3>2. Token(new) /\ Decided(new)
      BY <2>0, <3>1 DEF CallInv, Token, Decided, Front
    <3> QED BY <2>0, <3>1, <3>2 DEF CallInv
  <2> QED BY <1>2, <2>0, <2>1
<1>4. \A x \in ran' : x.req \in Requests /\ RanFor(call'[x.req].shape, x)
  BY <1>0, <1>3 DEF RouteInv
<1> QED BY <1>1, <1>3, <1>4 DEF RouteInv

-----------------------------------------------------------------------------

LEMMA RouteInit == Init => RouteInv
<1> SUFFICES ASSUME Init PROVE RouteInv
  OBVIOUS
<1>0. /\ ran = {}
      /\ call \in {c \in [Requests -> {Start(s) : s \in UNION {Shapes[r] : r \in Requests}}] :
                    \A r \in Requests : c[r].shape \in Shapes[r]}
  BY DEF Init
<1>1. DOMAIN call = Requests /\ \A r \in Requests :
          call[r] \in {Start(s) : s \in UNION {Shapes[q] : q \in Requests}}
  BY <1>0
<1>2. ASSUME NEW r \in Requests PROVE CallInv(call[r])
  <2>1. PICK q \in Requests : \E s \in Shapes[q] : call[r] = Start(s)
    BY SMTT(60), <1>1
  <2>2. PICK s \in Shapes[q] : call[r] = Start(s)
    BY <2>1
  <2>3. s \in Shape /\ (s.via = "node" => s.method \in internalMethods)
    BY RequestsAssumption
  <2> QED BY <2>2, <2>3, Started
<1> QED BY <1>0, <1>1, <1>2 DEF RouteInv

LEMMA RouteNext == RouteInv /\ [Next]_vars => RouteInv'
<1> SUFFICES ASSUME RouteInv, [Next]_vars PROVE RouteInv'
  OBVIOUS
<1>1. ASSUME NEW r \in Requests, Step(r) PROVE RouteInv'
  BY <1>1, AuthenticateKeeps, OwnerProxyKeeps, ProxiedKeeps, MuxKeeps, AskKeeps, UnaryKeeps,
     DialKeeps, InvokeKeeps, HandleKeeps DEF Step
<1>2. ASSUME NEW r \in Requests, Expire(r) \/ Retry(r) PROVE RouteInv'
  BY <1>2, ExpireKeeps, RetryKeeps
<1>3. ASSUME NEW n \in Nodes, Stop(n) PROVE RouteInv'
  BY <1>3, StopKeeps
<1>4. ASSUME UNCHANGED <<call, ran>> PROVE RouteInv'
  BY <1>4 DEF RouteInv
<1>5. ASSUME NEW n \in Nodes, \E a \in Addrs : Boot(n, a) PROVE RouteInv'
  BY <1>4, <1>5 DEF Boot
<1>6. ASSUME NEW n \in Nodes, NEW m \in Nodes, Forget(n, m) \/ \E pub \in BOOLEAN : Learn(n, m, pub)
      PROVE  RouteInv'
  BY <1>4, <1>6 DEF Forget, Learn
<1>7. ASSUME UNCHANGED vars PROVE RouteInv'
  BY <1>4, <1>7 DEF vars
<1> QED BY <1>1, <1>2, <1>3, <1>5, <1>6, <1>7 DEF Next

\* Every request keeps what its path has decided of it, whatever nodes go down,
\* come up where another was, or learn and forget on the way.
THEOREM RouteInvariant == Spec => []RouteInv
BY RouteInit, RouteNext, PTL DEF Spec

\* A node control runs on the node the request names, however stale the tables
\* and the pools on the way are.
THEOREM NamedNodeAlwaysActs == Spec => []NamedNodeActs
<1>1. RouteInv => NamedNodeActs
  BY DEF RouteInv, RanFor, Control, NamedNodeActs, shape
<1> QED BY <1>1, RouteInvariant, PTL

\* A handler that changes something runs only for a caller who is an admin by a
\* credential of their own, at the node they asked or at the one that acts.
THEOREM CallerIsAlwaysAdmin == Spec => []CallerIsAdmin
<1>1. ASSUME NEW s, NEW x, OwnAt(s, s.entry) \/ OwnAt(s, x.node)
      PROVE  \/ s.cookie = "admin"
             \/ /\ s.key # None
                /\ "admin" \in {RoleForKey[n][s.key] : n \in {s.entry, x.node}}
  BY <1>1 DEF OwnAt
<1>2. RouteInv => CallerIsAdmin
  BY <1>1 DEF RouteInv, RanFor, Guarded, CallerIsAdmin, shape
<1> QED BY <1>2, RouteInvariant, PTL
=============================================================================

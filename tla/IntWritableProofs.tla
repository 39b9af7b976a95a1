-------------------------- MODULE IntWritableProofs --------------------------
(***************************************************************************)
(* What an int keeps of itself on the way through IntWritable, for every   *)
(* int and not only for the samples of the Session runs.                   *)
(***************************************************************************)
EXTENDS IntWritable, TLAPS

(* The reader gets the one char that differs from the int by a multiple of *)
(* 256.                                                                    *)
LEMMA ReceivedIsResidue ==
    ASSUME NEW v \in Int
    PROVE  /\ Received(v) \in Chars
           /\ Received(v) % 256 = v % 256
<1>1. Received(v) = IF v % 256 < 128 THEN v % 256 ELSE (v % 256) - 256
  BY DEF Received, IntOfBytes, IntBytes, SignedChar
<1> QED BY <1>1 DEF Chars

(* Two chars that differ by a multiple of 256 are the same.                *)
LEMMA OneCharPerResidue ==
    ASSUME NEW x \in Chars, NEW y \in Chars, x % 256 = y % 256
    PROVE  x = y
BY DEF Chars

(* IntWritable.cpp:34 keeps exactly the ints of a char: any other comes    *)
(* back changed.                                                           *)
THEOREM RoundTrip == \A v \in Int : Received(v) = v <=> v \in Chars
BY ReceivedIsResidue, OneCharPerResidue

(* NameNode::create adds four ints that were each cut to a char, and its   *)
(* result is cut once more on the way back: the caller still gets what it  *)
(* would get if only the true sum were cut, hence the true sum whenever    *)
(* that is a char, whatever the four ints were.                            *)
THEOREM SumSurvives ==
    \A a, b, c, d \in Int :
        /\ Received(Received(a) + Received(b) + Received(c) + Received(d))
             = Received(a + b + c + d)
        /\ a + b + c + d \in Chars =>
             Received(Received(a) + Received(b) + Received(c) + Received(d))
               = a + b + c + d
<1> SUFFICES ASSUME NEW a \in Int, NEW b \in Int, NEW c \in Int, NEW d \in Int
             PROVE  /\ Received(Received(a) + Received(b) + Received(c) + Received(d))
                         = Received(a + b + c + d)
                    /\ a + b + c + d \in Chars =>
                         Received(Received(a) + Received(b) + Received(c) + Received(d))
                           = a + b + c + d
  OBVIOUS
<1> DEFINE S == Received(a) + Received(b) + Received(c) + Received(d)
           T == a + b + c + d
<1>1. \A v \in Int : Received(v) \in Int /\ Received(v) % 256 = v % 256
  <2>1. \A x \in Chars : x \in Int
    BY DEF Chars
  <2> QED BY <2>1, ReceivedIsResidue
<1>2. S \in Int /\ T \in Int
  BY <1>1
<1>3. S % 256 = T % 256
  <2> DEFINE p == Received(a)  q == Received(b)  r == Received(c)  s == Received(d)
  <2>1. p \in Int /\ q \in Int /\ r \in Int /\ s \in Int
    BY <1>1
  <2>2. p % 256 = a % 256 /\ q % 256 = b % 256 /\ r % 256 = c % 256 /\ s % 256 = d % 256
    BY <1>1
  <2> HIDE DEF p, q, r, s
  <2>3. (p + q + r + s) % 256 = (a + b + c + d) % 256
    BY <2>1, <2>2
  <2> QED BY <2>3 DEF p, q, r, s
<1>4. Received(S) = Received(T)
  <2>1. Received(S) \in Chars /\ Received(S) % 256 = S % 256
    BY <1>2, ReceivedIsResidue
  <2>2. Received(T) \in Chars /\ Received(T) % 256 = T % 256
    BY <1>2, ReceivedIsResidue
  <2> QED BY <2>1, <2>2, <1>3, OneCharPerResidue
<1>5. T \in Chars => Received(T) = T
  BY <1>2, RoundTrip
<1> QED BY <1>4, <1>5
=============================================================================

------------------------ MODULE SyslogServer_proofs ------------------------
(***************************************************************************)
(* Theorems about SyslogServer, for any addresses, connections and bounds, *)
(* and about what SyslogParser makes of a message.                         *)
(***************************************************************************)
EXTENDS SyslogServer, SyslogParser, SequenceTheorems, FiniteSetTheorems, TLAPS

\* The list the source ids come from never holds more than the API has listed.
ListInv ==
    /\ listed \subseteq everListed
    /\ allowed \subseteq everListed
    /\ heard \subseteq everListed

LEMMA ListInit == Init => ListInv
  BY DEF Init, ListInv

\* Forwarding consults the list itself, not the check of a protocol.
LEMMA ForwardedIsListed ==
    ASSUME ListInv, NEW a, OnSyslogMessage(a), UNCHANGED <<api, lists>>
    PROVE  ListInv'
  BY DEF ListInv, OnSyslogMessage, api, lists

LEMMA ListNext == ListInv /\ [Next]_vars => ListInv'
<1> SUFFICES ASSUME ListInv, [Next]_vars PROVE ListInv'
  OBVIOUS
<1>1. CASE ApiChanges
  BY <1>1 DEF ListInv, ApiChanges, lists
<1>2. CASE FetchInitial
  BY <1>2 DEF ListInv, FetchInitial, FetchResults, api
<1>3. CASE RefreshOk
  BY <1>3 DEF ListInv, RefreshOk, SetAllowedSources, api
<1>4. CASE RefreshFails
  BY <1>4 DEF ListInv, RefreshFails, SetAllowedSources, api
<1>5. ASSUME NEW a \in Address, DatagramReceived(a) \/ TrapReceived(a)
      PROVE  ListInv'
  BY <1>5, ForwardedIsListed DEF DatagramReceived, TrapReceived
<1>6. ASSUME NEW c \in Connection, ConnectionMade(c) PROVE ListInv'
  BY <1>6 DEF ListInv, ConnectionMade, api, lists
<1>7. ASSUME NEW c \in Connection, ConnectionLost(c) PROVE ListInv'
  <2>1. CASE UNCHANGED heard
    BY <1>7, <2>1 DEF ListInv, ConnectionLost, api, lists
  <2>2. CASE OnSyslogMessage(conns[c].from)
    BY <1>7, <2>2, ForwardedIsListed DEF ConnectionLost
  <2> QED
    BY <1>7, <2>1, <2>2 DEF ConnectionLost
<1>8. ASSUME NEW c \in Connection, NEW chunk \in Chunks(c), DataReceived(c, chunk)
      PROVE  ListInv'
  <2>1. CASE UNCHANGED heard
    BY <1>8, <2>1 DEF ListInv, DataReceived, api, lists
  <2>2. CASE OnSyslogMessage(conns[c].from)
    BY <1>8, <2>2, ForwardedIsListed DEF DataReceived
  <2> QED
    BY <1>8, <2>1, <2>2 DEF DataReceived
<1>9. CASE FetchRaises \/ Bind \/ Stop \/ StopReceiver
  BY <1>9 DEF ListInv, FetchRaises, Bind, Stop, StopReceiver, api, lists
<1>10. CASE UNCHANGED vars
  BY <1>10 DEF ListInv, vars, api, lists
<1> QED
  BY <1>1, <1>2, <1>3, <1>4, <1>5, <1>6, <1>7, <1>8, <1>9, <1>10 DEF Next, Finished

\* Whatever fetches fail and whenever the list changes, nothing is forwarded
\* for an address that was never listed (OnlyListedSources).
THEOREM ForwardedWasListed == Spec => []OnlyListedSources
<1>1. ListInv => OnlyListedSources
  BY DEF ListInv, OnlyListedSources
<1> QED
  BY <1>1, ListInit, ListNext, PTL DEF Spec

-----------------------------------------------------------------------------
(* The rest of a stream, and its last newline *)

\* A set of positions has a greatest one.
LEMMA MaxIs ==
    ASSUME NEW n \in Nat, NEW S \in SUBSET (0 .. n), S # {}
    PROVE  Max(S) \in S /\ \A i \in S : i <= Max(S)
<1> DEFINE T == {n - i : i \in S}
<1>1. T \subseteq Nat /\ T # {}
  <2>1. \A i \in S : n - i \in Nat
    OBVIOUS
  <2>2. PICK i \in S : TRUE
    OBVIOUS
  <2>3. n - i \in T
    BY <2>2
  <2> QED
    BY <2>1, <2>3
<1>2. PICK t \in T : \A u \in T : <<u, t>> \notin OpToRel(<, Nat)
  <2> HIDE DEF T
  <2> QED
    BY <1>1, NatLessThanWellFounded, WFMin
<1>3. \A u \in T : ~ (u < t)
  BY <1>1, <1>2 DEF OpToRel
<1>4. \E m \in S : \A i \in S : m >= i
  <2>1. PICK m \in S : t = n - m
    BY <1>2
  <2>2. \A i \in S : ~ (n - i < n - m)
    BY <1>3, <2>1
  <2> QED
    BY <2>2
<1>5. Max(S) \in S /\ \A i \in S : Max(S) >= i
  BY <1>4 DEF Max
<1> QED
  BY <1>5

LastBreak(s) == Max(Breaks(s) \cup {0})

\* b is the position of the last newline of s, or 0.
IsLastBreak(s, b) ==
    /\ b \in 0 .. Len(s) /\ (b > 0 => s[b] = Newline)
    /\ \A i \in b + 1 .. Len(s) : s[i] # Newline

LEMMA LastBreakIs ==
    ASSUME NEW s \in Seq(Byte)
    PROVE  /\ IsLastBreak(s, LastBreak(s))
           /\ \A b : IsLastBreak(s, b) => b = LastBreak(s)
<1> DEFINE S == Breaks(s) \cup {0}
<1>1. Len(s) \in Nat /\ S \subseteq 0 .. Len(s) /\ S # {}
  BY DEF Breaks
<1>2. Max(S) \in S /\ \A i \in S : i <= Max(S)
  BY <1>1, MaxIs
<1>3. \A i \in 1 .. Len(s) : i \in S <=> s[i] = Newline
  BY DEF Breaks
<1>4. LastBreak(s) = Max(S)
  BY DEF LastBreak
<1> HIDE DEF S
<1> DEFINE m == Max(S)
<1>5. m \in 0 .. Len(s) /\ m \in S
  BY <1>1, <1>2
<1>6. \A i \in S : i <= m
  BY <1>2
<1> HIDE DEF m
<1>7. IsLastBreak(s, m)
  <2>1. \A i \in m + 1 .. Len(s) : i \in 1 .. Len(s) /\ ~ (i <= m)
    BY <1>1, <1>5
  <2>2. m > 0 => m \in 1 .. Len(s)
    BY <1>1, <1>5
  <2> QED
    BY <1>3, <1>5, <1>6, <2>1, <2>2 DEF IsLastBreak
<1>8. ASSUME NEW b, IsLastBreak(s, b) PROVE b = m
  <2>1. b \in 0 .. Len(s) /\ b \in S
    <3>1. b \in 0 .. Len(s) /\ (b = 0 \/ b \in 1 .. Len(s))
      BY <1>1, <1>8 DEF IsLastBreak
    <3>2. b \in 1 .. Len(s) => s[b] = Newline
      BY <1>1, <1>8 DEF IsLastBreak
    <3> QED
      BY <1>3, <3>1, <3>2 DEF S
  <2>2. m \in b + 1 .. Len(s) => FALSE
    <3>1. m \in b + 1 .. Len(s) => m \in 1 .. Len(s) /\ s[m] # Newline
      BY <1>1, <1>8, <2>1 DEF IsLastBreak
    <3> QED
      BY <1>3, <1>5, <3>1
  <2> QED
    BY <1>1, <1>5, <1>6, <2>1, <2>2
<1> QED
  BY <1>4, <1>7, <1>8 DEF m

LEMMA RestIs ==
    ASSUME NEW s \in Seq(Byte), NEW b, IsLastBreak(s, b)
    PROVE  /\ Rest(s) = SubSeq(s, b + 1, Len(s)) /\ Rest(s) \in Seq(Byte)
           /\ Len(Rest(s)) = Len(s) - b
           /\ \A i \in 1 .. Len(s) - b : Rest(s)[i] = s[b + i]
<1>1. Rest(s) = SubSeq(s, b + 1, Len(s))
  BY LastBreakIs DEF Rest, LastBreak
<1>2. b \in 0 .. Len(s) /\ Len(s) \in Nat /\ \A i \in b + 1 .. Len(s) : s[i] \in Byte
  BY DEF IsLastBreak
<1> QED
  BY <1>1, <1>2, SubSeqProperties

\* Two sequences that end alike after their last newlines have the same rest.
LEMMA SameRest ==
    ASSUME NEW s \in Seq(Byte), NEW t \in Seq(Byte), NEW b, NEW c,
           IsLastBreak(s, b), IsLastBreak(t, c), Len(s) - b = Len(t) - c,
           \A i \in 1 .. Len(s) - b : s[b + i] = t[c + i]
    PROVE  Rest(s) = Rest(t)
<1>1. /\ Rest(s) \in Seq(Byte) /\ Len(Rest(s)) = Len(s) - b
      /\ \A i \in 1 .. Len(s) - b : Rest(s)[i] = s[b + i]
  BY RestIs
<1>2. /\ Rest(t) \in Seq(Byte) /\ Len(Rest(t)) = Len(t) - c
      /\ \A i \in 1 .. Len(t) - c : Rest(t)[i] = t[c + i]
  BY RestIs
<1> QED
  BY <1>1, <1>2, SeqEqual

\* What precedes a newline does not matter to the rest.
LEMMA RestMoves ==
    ASSUME NEW p \in Seq(Byte), NEW q \in Seq(Byte), NEW b \in Nat,
           Len(p) = b + Len(q), b > 0 => p[b] = Newline,
           \A i \in 1 .. Len(q) : p[b + i] = q[i]
    PROVE  Rest(p) = Rest(q)
<1> DEFINE c == LastBreak(q)
           n == Len(q)
<1>1. IsLastBreak(q, c) /\ n \in Nat
  BY LastBreakIs
<1> HIDE DEF c
<1>2. c \in 0 .. n /\ (c > 0 => q[c] = Newline) /\ \A i \in c + 1 .. n : q[i] # Newline
  BY <1>1 DEF IsLastBreak
<1>3. IsLastBreak(p, b + c)
  <2>1. b + c \in 0 .. Len(p)
    BY <1>1, <1>2
  <2>2. b + c > 0 => p[b + c] = Newline
    <3>1. CASE c > 0
      BY <1>1, <1>2, <3>1
    <3>2. CASE c = 0 /\ b > 0
      BY <3>2
    <3> QED
      BY <1>2, <3>1, <3>2
  <2>3. ASSUME NEW i \in (b + c) + 1 .. Len(p) PROVE p[i] # Newline
    <3>1. i - b \in c + 1 .. n /\ i - b \in 1 .. n /\ b + (i - b) = i
      BY <1>1, <1>2
    <3> QED
      BY <1>2, <3>1
  <2> QED
    BY <2>1, <2>2, <2>3 DEF IsLastBreak
<1>4. Len(p) - (b + c) = Len(q) - c
  BY <1>1, <1>2
<1>5. ASSUME NEW i \in 1 .. Len(p) - (b + c) PROVE p[(b + c) + i] = q[c + i]
  <2>1. c + i \in 1 .. n /\ (b + c) + i = b + (c + i)
    BY <1>1, <1>2
  <2> QED
    BY <2>1
<1> QED
  BY <1>1, <1>3, <1>4, <1>5, SameRest

-----------------------------------------------------------------------------
(* More bytes t come after s *)

\* From the last newline of s on, which is at b, st is what is left of s with t
\* behind it, which is rt.
Continues(s, t, b, st, rt) ==
    /\ st \in Seq(Byte) /\ rt \in Seq(Byte)
    /\ b \in 0 .. Len(s) /\ Len(s) \in Nat /\ Len(t) \in Nat
    /\ Len(st) = Len(s) + Len(t) /\ Len(rt) = Len(s) + Len(t) - b
    /\ \A i \in 1 .. Len(s) : st[i] = s[i]
    /\ \A i \in 1 .. Len(s) + Len(t) - b : rt[i] = st[b + i]

LEMMA ConcatIs ==
    ASSUME NEW s \in Seq(Byte), NEW t \in Seq(Byte), NEW b, IsLastBreak(s, b)
    PROVE  Continues(s, t, b, s \o t, Rest(s) \o t)
<1>1. /\ Rest(s) \in Seq(Byte) /\ Len(Rest(s)) = Len(s) - b
      /\ \A i \in 1 .. Len(s) - b : Rest(s)[i] = s[b + i]
  BY RestIs
<1>2. b \in 0 .. Len(s) /\ Len(s) \in Nat /\ Len(t) \in Nat
  BY DEF IsLastBreak
<1>3. /\ s \o t \in Seq(Byte) /\ Len(s \o t) = Len(s) + Len(t)
      /\ \A i \in 1 .. Len(s) + Len(t) :
            (s \o t)[i] = IF i <= Len(s) THEN s[i] ELSE t[i - Len(s)]
  BY ConcatProperties
<1> DEFINE r == Rest(s)
<1>4. /\ r \o t \in Seq(Byte) /\ Len(r \o t) = Len(r) + Len(t)
      /\ \A i \in 1 .. Len(r) + Len(t) :
            (r \o t)[i] = IF i <= Len(r) THEN r[i] ELSE t[i - Len(r)]
  <2> HIDE DEF r
  <2>1. r \in Seq(Byte)
    BY <1>1 DEF r
  <2> QED
    BY <2>1, ConcatProperties
<1>5. ASSUME NEW i \in 1 .. Len(s) + Len(t) - b
      PROVE  (r \o t)[i] = (s \o t)[b + i]
  <2>1. i \in 1 .. Len(r) + Len(t) /\ b + i \in 1 .. Len(s) + Len(t)
    BY <1>1, <1>2
  <2>2. CASE i <= Len(s) - b
    <3>1. i \in 1 .. Len(s) - b /\ b + i <= Len(s) /\ i <= Len(r)
      BY <1>1, <1>2, <2>2
    <3> QED
      BY <1>1, <1>3, <1>4, <2>1, <3>1
  <2>3. CASE ~ (i <= Len(s) - b)
    <3>1. ~ (b + i <= Len(s)) /\ ~ (i <= Len(r)) /\ (b + i) - Len(s) = i - Len(r)
      BY <1>1, <1>2, <2>3
    <3> HIDE DEF r
    <3> QED
      BY <1>3, <1>4, <2>1, <3>1
  <2> QED
    BY <2>2, <2>3
<1>6. \A i \in 1 .. Len(s) : i \in 1 .. Len(s) + Len(t) /\ i <= Len(s)
  BY <1>2
<1>7. \A i \in 1 .. Len(s) : (s \o t)[i] = s[i]
  BY <1>3, <1>6
<1>8. Len(r \o t) = Len(s) + Len(t) - b
  BY <1>1, <1>2, <1>4
<1> QED
  BY <1>2, <1>3, <1>4, <1>5, <1>7, <1>8 DEF Continues

\* The first n bytes of a stream.
LEMMA PrefixIs ==
    ASSUME NEW s \in Seq(Byte), NEW n \in 0 .. Len(s)
    PROVE  /\ SubSeq(s, 1, n) \in Seq(Byte) /\ Len(SubSeq(s, 1, n)) = n
           /\ \A i \in 1 .. n : SubSeq(s, 1, n)[i] = s[i]
<1>1. Len(s) \in Nat /\ \A i \in 1 .. n : s[i] \in Byte
  OBVIOUS
<1>2. /\ SubSeq(s, 1, n) \in Seq(Byte)
      /\ Len(SubSeq(s, 1, n)) = IF 1 <= n THEN n - 1 + 1 ELSE 0
      /\ \A i \in 1 .. n - 1 + 1 : SubSeq(s, 1, n)[i] = s[1 + i - 1]
  BY <1>1, SubSeqProperties
<1>3. \A i \in 1 .. n : i \in 1 .. n - 1 + 1 /\ 1 + i - 1 = i
  OBVIOUS
<1> QED
  BY <1>2, <1>3

LEMMA LineType ==
    ASSUME NEW s \in Seq(Byte), NEW e \in 1 .. Len(s)
    PROVE  Line(s, e) \in Seq(Byte)
<1>1. e - 1 \in 0 .. Len(s)
  OBVIOUS
<1>2. SubSeq(s, 1, e - 1) \in Seq(Byte)
  BY <1>1, PrefixIs
<1> QED
  BY <1>2, LastBreakIs, RestIs DEF Line

\* A line of s is a line of s \o t ...
LEMMA LineStays ==
    ASSUME NEW s \in Seq(Byte), NEW t \in Seq(Byte), NEW e \in 1 .. Len(s)
    PROVE  Line(s \o t, e) = Line(s, e)
<1>1. /\ s \o t \in Seq(Byte) /\ Len(s \o t) = Len(s) + Len(t)
      /\ Len(s) \in Nat /\ Len(t) \in Nat
      /\ \A i \in 1 .. Len(s) : (s \o t)[i] = s[i]
  BY LastBreakIs, ConcatIs DEF Continues
<1> DEFINE st == s \o t
           n  == e - 1
<1>2. n \in 0 .. Len(s) /\ n \in 0 .. Len(st)
  BY <1>1
<1>3. SubSeq(st, 1, n) = SubSeq(s, 1, n)
  <2>1. /\ SubSeq(s, 1, n) \in Seq(Byte) /\ Len(SubSeq(s, 1, n)) = n
        /\ \A i \in 1 .. n : SubSeq(s, 1, n)[i] = s[i]
    BY <1>2, PrefixIs
  <2>2. /\ SubSeq(st, 1, n) \in Seq(Byte) /\ Len(SubSeq(st, 1, n)) = n
        /\ \A i \in 1 .. n : SubSeq(st, 1, n)[i] = st[i]
    <3> HIDE DEF n
    <3>1. st \in Seq(Byte)
      BY <1>1
    <3> HIDE DEF st
    <3> QED
      BY <1>2, <3>1, PrefixIs
  <2>3. \A i \in 1 .. n : st[i] = s[i]
    BY <1>1, <1>2
  <2> HIDE DEF n, st
  <2>4. \A i \in 1 .. n : SubSeq(st, 1, n)[i] = SubSeq(s, 1, n)[i]
    BY <2>1, <2>2, <2>3
  <2> QED
    BY <2>1, <2>2, <2>4, SeqEqual
<1> QED
  BY <1>3 DEF Line

\* ... and the others are lines of what was left of s with t behind it.
LEMMA LineMoves ==
    ASSUME NEW s \in Seq(Byte), NEW t \in Seq(Byte), NEW b, IsLastBreak(s, b),
           NEW e \in 1 .. Len(s) + Len(t) - b
    PROVE  Line(s \o t, b + e) = Line(Rest(s) \o t, e)
<1> DEFINE st == s \o t
           rt == Rest(s) \o t
<1>0. Continues(s, t, b, st, rt)
  BY ConcatIs
<1> HIDE DEF st, rt
<1>1. /\ st \in Seq(Byte) /\ rt \in Seq(Byte)
      /\ b \in 0 .. Len(s) /\ Len(s) \in Nat /\ Len(t) \in Nat
      /\ Len(st) = Len(s) + Len(t) /\ Len(rt) = Len(s) + Len(t) - b
      /\ \A i \in 1 .. Len(s) : st[i] = s[i]
      /\ \A i \in 1 .. Len(s) + Len(t) - b : rt[i] = st[b + i]
  BY <1>0 DEF Continues
<1> DEFINE n == e - 1
           p == SubSeq(st, 1, b + n)
           q == SubSeq(rt, 1, n)
<1>2. /\ n \in 0 .. Len(rt) /\ b + n \in 0 .. Len(st) /\ b + n = (b + e) - 1 /\ n \in Nat
      /\ b \in Nat
  BY <1>1
<1> HIDE DEF n
<1>3. p \in Seq(Byte) /\ Len(p) = b + n /\ \A i \in 1 .. b + n : p[i] = st[i]
  BY <1>1, <1>2, PrefixIs
<1>4. q \in Seq(Byte) /\ Len(q) = n /\ \A i \in 1 .. n : q[i] = rt[i]
  BY <1>1, <1>2, PrefixIs
<1> HIDE DEF p, q
<1>5. \A i \in 1 .. n : p[b + i] = q[i]
  <2>1. \A i \in 1 .. n : b + i \in 1 .. b + n /\ i \in 1 .. Len(s) + Len(t) - b
    BY <1>1, <1>2
  <2> QED
    BY <1>1, <1>3, <1>4, <2>1
<1>6. b > 0 => p[b] = Newline
  <2>1. b > 0 => b \in 1 .. Len(s) /\ b \in 1 .. b + n
    BY <1>1, <1>2
  <2>2. b > 0 => s[b] = Newline
    BY DEF IsLastBreak
  <2> QED
    BY <1>1, <1>3, <2>1, <2>2
<1>9. Rest(p) = Rest(q)
  BY <1>2, <1>3, <1>4, <1>5, <1>6, RestMoves
<1> QED
  BY <1>2, <1>9 DEF Line, n, p, q, st, rt

LEMMA RestOfConcat ==
    ASSUME NEW s \in Seq(Byte), NEW t \in Seq(Byte)
    PROVE  Rest(s \o t) = Rest(Rest(s) \o t)
<1> DEFINE b  == LastBreak(s)
           st == s \o t
           rt == Rest(s) \o t
<1>1. IsLastBreak(s, b)
  BY LastBreakIs
<1> HIDE DEF b
<1>2. Continues(s, t, b, st, rt)
  BY <1>1, ConcatIs
<1> HIDE DEF st, rt
<1>3. /\ st \in Seq(Byte) /\ rt \in Seq(Byte) /\ b \in Nat /\ Len(st) = b + Len(rt)
      /\ \A i \in 1 .. Len(rt) : st[b + i] = rt[i]
  BY <1>2 DEF Continues
<1>4. b > 0 => st[b] = Newline
  <2>1. b > 0 => b \in 1 .. Len(s) /\ s[b] = Newline
    BY <1>1, <1>2 DEF IsLastBreak, Continues
  <2> QED
    BY <1>2, <2>1 DEF Continues
<1> QED
  BY <1>3, <1>4, RestMoves DEF st, rt

\* The positions T, moved behind the first b ones.
Shifted(b, T) == {b + e : e \in T}

\* The sets of positions of a stream of n bytes.
Positions(n) == SUBSET (1 .. n)

\* The newlines of s and those behind.
LEMMA EndsOfConcat ==
    ASSUME NEW s \in Seq(Byte), NEW t \in Seq(Byte), NEW b, IsLastBreak(s, b)
    PROVE  /\ Ends(s) \subseteq 1 .. b
           /\ Ends(s \o t) = Ends(s) \cup Shifted(b, Ends(Rest(s) \o t))
           /\ Ends(Rest(s) \o t) \subseteq 1 .. Len(s) + Len(t) - b
<1> DEFINE st == s \o t
           rt == Rest(s) \o t
<1>0. Continues(s, t, b, st, rt)
  BY ConcatIs
<1>l. /\ \A e \in 1 .. Len(s) : Line(st, e) = Line(s, e)
      /\ \A e \in 1 .. Len(s) + Len(t) - b : Line(st, b + e) = Line(rt, e)
  BY LineStays, LineMoves
<1> HIDE DEF st, rt
<1>1. /\ b \in 0 .. Len(s) /\ Len(s) \in Nat /\ Len(t) \in Nat
      /\ Len(st) = Len(s) + Len(t) /\ Len(rt) = Len(s) + Len(t) - b
      /\ \A i \in 1 .. Len(s) : st[i] = s[i]
      /\ \A i \in 1 .. Len(s) + Len(t) - b : rt[i] = st[b + i]
  BY <1>0 DEF Continues
<1>2. /\ b > 0 => s[b] = Newline
      /\ \A i \in b + 1 .. Len(s) : s[i] # Newline
  BY DEF IsLastBreak
<1>3. ASSUME NEW e \in Ends(s) PROVE e \in 1 .. b /\ e \in Ends(st)
  <2>1. e \in 1 .. Len(s) /\ s[e] = Newline /\ Line(s, e) # <<>>
    BY DEF Ends, Breaks
  <2>2. e \in 1 .. b
    BY <1>1, <1>2, <2>1
  <2>3. e \in 1 .. Len(st) /\ st[e] = Newline /\ Line(st, e) # <<>>
    BY <1>1, <1>l, <2>1
  <2> QED
    BY <2>2, <2>3 DEF Ends, Breaks
<1>4. ASSUME NEW e \in Ends(rt) PROVE e \in 1 .. Len(s) + Len(t) - b /\ b + e \in Ends(st)
  <2>1. e \in 1 .. Len(s) + Len(t) - b /\ rt[e] = Newline /\ Line(rt, e) # <<>>
    BY <1>1 DEF Ends, Breaks
  <2>2. b + e \in 1 .. Len(st) /\ st[b + e] = Newline /\ Line(st, b + e) # <<>>
    BY <1>1, <1>l, <2>1
  <2> QED
    BY <2>1, <2>2 DEF Ends, Breaks
<1>5. ASSUME NEW e \in Ends(st), e \notin Ends(s) PROVE \E x \in Ends(rt) : e = b + x
  <2>1. e \in 1 .. Len(s) + Len(t) /\ st[e] = Newline /\ Line(st, e) # <<>>
    BY <1>1 DEF Ends, Breaks
  <2>2. CASE e <= b
    <3>1. e \in 1 .. Len(s)
      BY <1>1, <2>1, <2>2
    <3>2. s[e] = Newline /\ Line(s, e) # <<>>
      BY <1>1, <1>l, <2>1, <3>1
    <3> QED
      BY <1>5, <3>1, <3>2 DEF Ends, Breaks
  <2>3. CASE ~ (e <= b)
    <3> DEFINE x == e - b
    <3>1. x \in 1 .. Len(s) + Len(t) - b /\ e = b + x
      BY <1>1, <2>1, <2>3
    <3> HIDE DEF x
    <3>2. rt[x] = Newline /\ Line(rt, x) # <<>>
      BY <1>1, <1>l, <2>1, <3>1
    <3>3. x \in Ends(rt)
      BY <1>1, <3>1, <3>2 DEF Ends, Breaks
    <3> QED
      BY <3>1, <3>3
  <2> QED
    BY <2>2, <2>3
<1>6. Ends(st) = Ends(s) \cup Shifted(b, Ends(rt))
  BY <1>3, <1>4, <1>5 DEF Shifted
<1> QED
  BY <1>3, <1>4, <1>6 DEF st, rt

-----------------------------------------------------------------------------
(* The k-th of a set of positions *)

Upto(S, e) == {i \in S : i <= e}

LEMMA PositionsAreFinite ==
    ASSUME NEW n \in Nat, NEW S \in SUBSET (1 .. n)
    PROVE  IsFiniteSet(S) /\ Cardinality(S) \in Nat
<1>1. IsFiniteSet(1 .. n)
  BY FS_Interval
<1> QED
  BY <1>1, FS_Subset, FS_CardinalityType

LEMMA NthIs ==
    ASSUME NEW n \in Nat, NEW S \in SUBSET (1 .. n), NEW k \in 1 .. Cardinality(S)
    PROVE  /\ Nth(S, k) \in S /\ Cardinality(Upto(S, Nth(S, k))) = k
           /\ \A e \in S : Cardinality(Upto(S, e)) = k => e = Nth(S, k)
<1> DEFINE c == Cardinality(S)
           f == [e \in S |-> Cardinality(Upto(S, e))]
<1>1. IsFiniteSet(S) /\ c \in Nat
  BY PositionsAreFinite
<1>2. \A e \in S : /\ Upto(S, e) \in SUBSET S /\ e \in Upto(S, e)
                   /\ IsFiniteSet(Upto(S, e)) /\ Cardinality(Upto(S, e)) \in 1 .. c
  <2> TAKE e \in S
  <2>1. Upto(S, e) \in SUBSET S /\ e \in Upto(S, e)
    BY DEF Upto
  <2>2. IsFiniteSet(Upto(S, e)) /\ Cardinality(Upto(S, e)) <= c
    BY <1>1, <2>1, FS_Subset
  <2>3. Cardinality(Upto(S, e)) \in Nat /\ Cardinality(Upto(S, e)) # 0
    BY <2>1, <2>2, FS_CardinalityType, FS_EmptySet
  <2> QED
    BY <1>1, <2>1, <2>2, <2>3
<1>3. \A d, e \in S : d < e => Cardinality(Upto(S, d)) # Cardinality(Upto(S, e))
  <2> TAKE d, e \in S
  <2> HAVE d < e
  <2>1. Upto(S, d) \in SUBSET Upto(S, e) /\ e \notin Upto(S, d)
    <3>1. \A i \in S : i <= d => i <= e
      OBVIOUS
    <3>2. ~ (e <= d)
      OBVIOUS
    <3> QED
      BY <3>1, <3>2 DEF Upto
  <2> QED
    BY <1>2, <2>1, FS_Subset
<1>4. \A d, e \in S : Cardinality(Upto(S, d)) = Cardinality(Upto(S, e)) => d = e
  <2>1. \A d, e \in S : d < e \/ e < d \/ d = e
    OBVIOUS
  <2> QED
    BY <1>3, <2>1
<1>5. f \in Injection(S, 1 .. c)
  BY <1>2, <1>4 DEF Injection, IsInjective
<1> HIDE DEF f
<1>6. IsFiniteSet(1 .. c) /\ Cardinality(1 .. c) = c
  BY <1>1, FS_Interval
<1>7. f \in Surjection(S, 1 .. c)
  BY <1>5, <1>6, FS_Injection
<1>8. \E e \in S : Cardinality(Upto(S, e)) = k
  BY <1>7 DEF Surjection, f
<1>9. Nth(S, k) \in S /\ Cardinality(Upto(S, Nth(S, k))) = k
  BY <1>8 DEF Nth, Upto
<1> QED
  BY <1>4, <1>9

LEMMA ShiftCardinality ==
    ASSUME NEW n \in Nat, NEW T \in SUBSET (1 .. n), NEW b \in Nat
    PROVE  IsFiniteSet(Shifted(b, T)) /\ Cardinality(Shifted(b, T)) = Cardinality(T)
<1> DEFINE f == [e \in T |-> b + e]
<1>1. IsFiniteSet(T)
  BY PositionsAreFinite
<1>2. \A d, e \in T : b + d = b + e => d = e
  OBVIOUS
<1>3. f \in Bijection(T, Shifted(b, T))
  BY <1>2 DEF Bijection, Injection, IsInjective, Surjection, Shifted
<1> HIDE DEF f
<1>4. ExistsBijection(T, Shifted(b, T))
  BY <1>3 DEF ExistsBijection
<1> QED
  BY <1>1, <1>4, FS_Bijection

\* A set of positions beyond those of another one.
LEMMA UnionCardinality ==
    ASSUME NEW n \in Nat, NEW b \in Nat, NEW S \in Positions(b), NEW T \in Positions(n)
    PROVE  Cardinality(S \cup Shifted(b, T)) = Cardinality(S) + Cardinality(T)
<1> DEFINE V == Shifted(b, T)
<1>0. S \in SUBSET (1 .. b) /\ T \in SUBSET (1 .. n)
  BY DEF Positions
<1>1. IsFiniteSet(V) /\ Cardinality(V) = Cardinality(T)
  BY <1>0, ShiftCardinality
<1>2. IsFiniteSet(S) /\ Cardinality(S) \in Nat /\ Cardinality(T) \in Nat
  BY <1>0, PositionsAreFinite
<1>3. S \cap V = {}
  <2>1. \A e \in T : ~ (b + e <= b)
    BY <1>0
  <2>2. \A x \in S : x <= b
    BY <1>0
  <2>3. \A x \in V : ~ (x <= b)
    BY <2>1 DEF Shifted
  <2> QED
    BY <2>2, <2>3
<1> HIDE DEF V
<1>4. Cardinality(S \cap V) = 0
  BY <1>3, FS_EmptySet
<1>5. Cardinality(S \cup V) = Cardinality(S) + Cardinality(V) - Cardinality(S \cap V)
  BY <1>1, <1>2, FS_Union
<1>6. Cardinality(S \cup V) = Cardinality(S) + Cardinality(T)
  BY <1>1, <1>2, <1>4, <1>5
<1> QED
  BY <1>6 DEF V

LEMMA NthOfUnion ==
    ASSUME NEW n \in Nat, NEW b \in Nat, NEW S \in Positions(b), NEW T \in Positions(n)
    PROVE  /\ \A k \in 1 .. Cardinality(S) : Nth(S \cup Shifted(b, T), k) = Nth(S, k)
           /\ \A k \in 1 .. Cardinality(T) :
                 Nth(S \cup Shifted(b, T), Cardinality(S) + k) = b + Nth(T, k)
<1> DEFINE U == S \cup Shifted(b, T)
<1>0. S \in SUBSET (1 .. b) /\ T \in SUBSET (1 .. n)
  BY DEF Positions
<1>1. Cardinality(U) = Cardinality(S) + Cardinality(T)
  BY UnionCardinality, SMT
<1>2. Cardinality(S) \in Nat /\ Cardinality(T) \in Nat
  BY <1>0, PositionsAreFinite
<1>3. U \in SUBSET (1 .. b + n) /\ b + n \in Nat
  <2>1. \A e \in S : e \in 1 .. b + n
    BY <1>0
  <2>2. \A e \in T : b + e \in 1 .. b + n
    BY <1>0
  <2>3. \A x \in U : x \in 1 .. b + n
    BY <2>1, <2>2, Zenon DEF Shifted
  <2> HIDE DEF U
  <2> QED
    BY <2>3
<1>4. ASSUME NEW k \in 1 .. Cardinality(S) PROVE Nth(U, k) = Nth(S, k)
  <2> DEFINE e == Nth(S, k)
  <2>1. e \in S /\ Cardinality(Upto(S, e)) = k
    BY <1>0, NthIs
  <2> HIDE DEF e
  <2>2. Upto(U, e) = Upto(S, e) /\ e \in U
    <3>1. \A x \in T : ~ (b + x <= e)
      BY <1>0, <2>1
    <3>2. \A y \in Shifted(b, T) : ~ (y <= e)
      BY <3>1, Zenon DEF Shifted
    <3> QED
      BY <2>1, <3>2, Zenon DEF Upto
  <2>3. k \in 1 .. Cardinality(U)
    BY <1>1, <1>2
  <2> HIDE DEF U
  <2>4. e = Nth(U, k)
    BY <1>3, <2>1, <2>2, <2>3, NthIs
  <2> QED
    BY <2>4 DEF e
<1>5. ASSUME NEW k \in 1 .. Cardinality(T)
      PROVE  Nth(U, Cardinality(S) + k) = b + Nth(T, k)
  <2> DEFINE e == Nth(T, k)
  <2>1. e \in T /\ Cardinality(Upto(T, e)) = k
    BY <1>0, NthIs
  <2> HIDE DEF e
  <2>2. b + e \in U /\ Upto(U, b + e) = S \cup Shifted(b, Upto(T, e))
    <3>1. \A x \in S : x <= b + e
      BY <1>0, <2>1
    <3>2. \A x \in T : b + x <= b + e <=> x <= e
      BY <1>0, <2>1
    <3> QED
      BY <2>1, <3>1, <3>2 DEF Upto, Shifted
  <2>3. Cardinality(Upto(U, b + e)) = Cardinality(S) + k
    <3>1. Upto(T, e) \in Positions(n)
      BY <1>0 DEF Upto, Positions
    <3>2. Cardinality(S \cup Shifted(b, Upto(T, e))) = Cardinality(S) + Cardinality(Upto(T, e))
      BY <3>1, UnionCardinality, SMT
    <3>3. Cardinality(Upto(U, b + e)) = Cardinality(S) + Cardinality(Upto(T, e))
      BY <2>2, <3>2, Zenon
    <3> QED
      BY <2>1, <3>3, Zenon
  <2>4. Cardinality(S) + k \in 1 .. Cardinality(U)
    BY <1>1, <1>2
  <2> HIDE DEF U
  <2>5. b + e = Nth(U, Cardinality(S) + k)
    BY <1>3, <2>2, <2>3, <2>4, NthIs
  <2> QED
    BY <2>5 DEF e
<1> QED
  BY <1>4, <1>5

-----------------------------------------------------------------------------
(* The lines of a stream *)

LEMMA LinesType ==
    ASSUME NEW s \in Seq(Byte)
    PROVE  /\ Ends(s) \in SUBSET (1 .. Len(s)) /\ Cardinality(Ends(s)) \in Nat
           /\ Lines(s) \in Seq(Seq(Byte)) /\ Len(Lines(s)) = Cardinality(Ends(s))
           /\ \A k \in 1 .. Cardinality(Ends(s)) : Lines(s)[k] = Line(s, Nth(Ends(s), k))
<1> DEFINE c == Cardinality(Ends(s))
<1>1. Ends(s) \in SUBSET (1 .. Len(s)) /\ Len(s) \in Nat
  BY DEF Ends, Breaks
<1>2. c \in Nat
  BY <1>1, PositionsAreFinite
<1>3. \A k \in 1 .. c : Line(s, Nth(Ends(s), k)) \in Seq(Byte)
  BY <1>1, NthIs, LineType
<1>4. Lines(s) = [k \in 1 .. c |-> Line(s, Nth(Ends(s), k))]
  BY DEF Lines
<1> HIDE DEF c
<1>5. Lines(s) \in [1 .. c -> Seq(Byte)]
  BY <1>3, <1>4
<1>6. Lines(s) \in Seq(Seq(Byte)) /\ Len(Lines(s)) = c
  BY <1>2, <1>5, SeqDef, LenProperties
<1> QED
  BY <1>1, <1>2, <1>4, <1>6 DEF c

\* The heart of Framed: what comes later does not change the lines so far, and the
\* rest of them are those of what was left, with what comes behind it.
LEMMA LinesOfConcat ==
    ASSUME NEW s \in Seq(Byte), NEW t \in Seq(Byte)
    PROVE  Lines(s \o t) = Lines(s) \o Lines(Rest(s) \o t)
<1> DEFINE b  == LastBreak(s)
           st == s \o t
           rt == Rest(s) \o t
           m  == Cardinality(Ends(s))
           n  == Cardinality(Ends(rt))
<1>b. IsLastBreak(s, b)
  BY LastBreakIs
<1> HIDE DEF b
<1>c. Continues(s, t, b, st, rt)
  BY <1>b, ConcatIs
<1>1. /\ Ends(s) \subseteq 1 .. b /\ Ends(st) = Ends(s) \cup Shifted(b, Ends(rt))
      /\ Ends(rt) \subseteq 1 .. Len(s) + Len(t) - b
  BY <1>b, EndsOfConcat
<1>l. /\ \A e \in 1 .. Len(s) : Line(st, e) = Line(s, e)
      /\ \A e \in 1 .. Len(s) + Len(t) - b : Line(st, b + e) = Line(rt, e)
  BY <1>b, LineStays, LineMoves
<1> HIDE DEF st, rt
<1>t. /\ st \in Seq(Byte) /\ rt \in Seq(Byte) /\ b \in 0 .. Len(s) /\ b \in Nat
      /\ Len(s) + Len(t) - b \in Nat /\ Len(s) \in Nat
  BY <1>c DEF Continues
<1>2. /\ Lines(s) \in Seq(Seq(Byte)) /\ Len(Lines(s)) = m /\ m \in Nat
      /\ \A k \in 1 .. m : Lines(s)[k] = Line(s, Nth(Ends(s), k))
  BY LinesType
<1>3. /\ Lines(rt) \in Seq(Seq(Byte)) /\ Len(Lines(rt)) = n /\ n \in Nat
      /\ \A k \in 1 .. n : Lines(rt)[k] = Line(rt, Nth(Ends(rt), k))
  BY <1>t, LinesType
<1> DEFINE S == Ends(s)
           T == Ends(rt)
           N == Len(s) + Len(t) - b
<1>s. b \in Nat /\ N \in Nat /\ S \in Positions(b) /\ T \in Positions(N)
  BY <1>1, <1>t DEF Positions
<1> HIDE DEF S, T, N
<1>u. Cardinality(S \cup Shifted(b, T)) = Cardinality(S) + Cardinality(T)
  BY <1>s, UnionCardinality, SMT
<1>n. /\ \A k \in 1 .. Cardinality(S) : Nth(S \cup Shifted(b, T), k) = Nth(S, k)
      /\ \A k \in 1 .. Cardinality(T) :
            Nth(S \cup Shifted(b, T), Cardinality(S) + k) = b + Nth(T, k)
  BY <1>s, NthOfUnion, Zenon
<1>4. Cardinality(Ends(st)) = m + n
  BY <1>1, <1>u DEF S, T
<1>5. /\ Lines(st) \in Seq(Seq(Byte)) /\ Len(Lines(st)) = m + n
      /\ \A k \in 1 .. m + n : Lines(st)[k] = Line(st, Nth(Ends(st), k))
  BY <1>4, <1>t, LinesType
<1>6. /\ \A k \in 1 .. m : Nth(Ends(st), k) = Nth(Ends(s), k)
      /\ \A k \in 1 .. n : Nth(Ends(st), m + k) = b + Nth(Ends(rt), k)
  BY <1>1, <1>n DEF S, T
<1>7. \A k \in 1 .. m : Nth(Ends(s), k) \in 1 .. b
  BY <1>1, <1>t, NthIs
<1>8. \A k \in 1 .. n : Nth(Ends(rt), k) \in 1 .. Len(s) + Len(t) - b
  BY <1>1, <1>t, NthIs
<1> HIDE DEF m, n
<1>9. ASSUME NEW k \in 1 .. m PROVE Lines(st)[k] = Lines(s)[k]
  <2>1. k \in 1 .. m + n /\ Nth(Ends(s), k) \in 1 .. Len(s)
    BY <1>2, <1>3, <1>7, <1>t
  <2> QED
    BY <1>2, <1>5, <1>6, <1>l, <2>1
<1>10. ASSUME NEW k \in 1 .. n PROVE Lines(st)[m + k] = Lines(rt)[k]
  <2>1. m + k \in 1 .. m + n
    BY <1>2, <1>3
  <2> QED
    BY <1>3, <1>5, <1>6, <1>8, <1>l, <2>1
<1> DEFINE u == Lines(s) \o Lines(rt)
<1>11. /\ u \in Seq(Seq(Byte)) /\ Len(u) = m + n
       /\ \A k \in 1 .. m + n : u[k] = IF k <= m THEN Lines(s)[k] ELSE Lines(rt)[k - m]
  BY <1>2, <1>3, ConcatProperties
<1> HIDE DEF u
<1>12. ASSUME NEW k \in 1 .. m + n PROVE Lines(st)[k] = u[k]
  <2>1. CASE k <= m
    <3>1. k \in 1 .. m
      BY <1>2, <1>3, <2>1
    <3> QED
      BY <1>9, <1>11, <2>1, <3>1
  <2>2. CASE ~ (k <= m)
    <3>1. k - m \in 1 .. n /\ m + (k - m) = k
      BY <1>2, <1>3, <2>2
    <3> QED
      BY <1>10, <1>11, <2>2, <3>1
  <2> QED
    BY <2>1, <2>2
<1>13. Lines(st) = u
  BY <1>5, <1>11, <1>12, SeqEqual
<1> QED
  BY <1>13 DEF u, st, rt

LEMMA NoLines == Ends(<<>>) = {} /\ Lines(<<>>) = <<>> /\ Rest(<<>>) = <<>>
<1>1. <<>> \in Seq(Byte) /\ Len(<<>>) = 0
  BY EmptySeq
<1>2. Ends(<<>>) = {}
  BY <1>1 DEF Ends, Breaks
<1>3. Len(Lines(<<>>)) = 0 /\ Lines(<<>>) \in Seq(Seq(Byte))
  BY <1>1, <1>2, LinesType, FS_EmptySet
<1>4. Lines(<<>>) = <<>>
  BY <1>3
<1>5. IsLastBreak(<<>>, 0)
  BY <1>1 DEF IsLastBreak
<1> DEFINE e == <<>>
<1>6. e \in Seq(Byte) /\ Len(e) = 0 /\ IsLastBreak(e, 0)
  BY <1>1, <1>5
<1> HIDE DEF e
<1>7. Rest(e) \in Seq(Byte) /\ Len(Rest(e)) = Len(e) - 0
  BY <1>6, RestIs
<1>8. Rest(e) = <<>>
  BY <1>6, <1>7
<1> QED
  BY <1>2, <1>4, <1>8 DEF e

\* A newline makes a line of a rest.
LEMMA LastLine ==
    ASSUME NEW r \in Seq(Byte), \A i \in 1 .. Len(r) : r[i] # Newline
    PROVE  Lines(r \o <<Newline>>) = IF r = <<>> THEN <<>> ELSE <<r>>
<1> DEFINE n == Len(r) + 1
           s == r \o <<Newline>>
<1>1. <<Newline>> \in Seq(Byte) /\ Len(<<Newline>>) = 1 /\ <<Newline>>[1] = Newline
  BY DEF Byte
<1>2. /\ s \in Seq(Byte) /\ Len(s) = n /\ Len(r) \in Nat
      /\ s[n] = Newline /\ \A i \in 1 .. Len(r) : s[i] = r[i]
  <2>1. /\ s \in Seq(Byte) /\ Len(s) = Len(r) + Len(<<Newline>>)
        /\ \A i \in 1 .. Len(r) + Len(<<Newline>>) :
              s[i] = IF i <= Len(r) THEN r[i] ELSE <<Newline>>[i - Len(r)]
    BY <1>1, ConcatProperties
  <2> HIDE DEF s
  <2>2. Len(r) \in Nat
    OBVIOUS
  <2>3. n \in 1 .. Len(r) + 1 /\ ~ (n <= Len(r)) /\ n - Len(r) = 1
    BY <2>2
  <2>4. \A i \in 1 .. Len(r) : i \in 1 .. Len(r) + 1 /\ i <= Len(r)
    BY <2>2
  <2> QED
    BY <1>1, <2>1, <2>2, <2>3, <2>4
<1> HIDE DEF s
<1>3. Line(s, n) = r
  <2> DEFINE p == SubSeq(s, 1, Len(r))
  <2>1. p \in Seq(Byte) /\ Len(p) = Len(r) /\ \A i \in 1 .. Len(r) : p[i] = s[i]
    BY <1>2, PrefixIs
  <2> HIDE DEF p
  <2>2. p = r
    BY <1>2, <2>1, SeqEqual
  <2>3. IsLastBreak(r, 0)
    BY <1>2 DEF IsLastBreak
  <2>4. Rest(r) \in Seq(Byte) /\ Len(Rest(r)) = Len(r) /\ \A i \in 1 .. Len(r) : Rest(r)[i] = r[i]
    BY <1>2, <2>3, RestIs
  <2>5. Rest(r) = r
    BY <2>4, SeqEqual
  <2>6. n - 1 = Len(r)
    BY <1>2
  <2> QED
    BY <2>2, <2>5, <2>6 DEF Line, p
<1>4. Breaks(s) = {n}
  <2>1. \A i \in 1 .. n : i \in 1 .. Len(r) \/ i = n
    BY <1>2
  <2>2. n \in 1 .. n
    BY <1>2
  <2> HIDE DEF n
  <2> QED
    BY <1>2, <2>1, <2>2 DEF Breaks
<1>5. CASE r = <<>>
  <2>1. Ends(s) = {}
    BY <1>3, <1>4, <1>5 DEF Ends
  <2>2. Lines(s) \in Seq(Seq(Byte)) /\ Len(Lines(s)) = 0
    BY <1>2, <2>1, LinesType, FS_EmptySet
  <2> QED
    BY <1>5, <2>2 DEF s
<1>6. CASE r # <<>>
  <2>1. Ends(s) = {n}
    BY <1>3, <1>4, <1>6 DEF Ends
  <2>2. Cardinality(Ends(s)) = 1
    BY <2>1, FS_Singleton
  <2>3. /\ Lines(s) \in Seq(Seq(Byte)) /\ Len(Lines(s)) = 1
        /\ Lines(s)[1] = Line(s, Nth(Ends(s), 1))
    <3>1. /\ Lines(s) \in Seq(Seq(Byte)) /\ Len(Lines(s)) = Cardinality(Ends(s))
          /\ \A k \in 1 .. Cardinality(Ends(s)) : Lines(s)[k] = Line(s, Nth(Ends(s), k))
      BY <1>2, LinesType
    <3>2. 1 \in 1 .. Cardinality(Ends(s))
      BY <2>2
    <3> QED
      BY <2>2, <3>1, <3>2
  <2>4. Nth(Ends(s), 1) = n
    <3>1. Ends(s) \in SUBSET (1 .. Len(s)) /\ Len(s) \in Nat /\ 1 \in 1 .. Cardinality(Ends(s))
      BY <1>2, <2>2, LinesType
    <3>2. Nth(Ends(s), 1) \in Ends(s)
      BY <3>1, NthIs
    <3> QED
      BY <2>1, <3>2
  <2>5. Lines(s) = <<r>>
    BY <1>3, <2>3, <2>4
  <2> QED
    BY <1>6, <2>5 DEF s
<1> QED
  BY <1>5, <1>6

-----------------------------------------------------------------------------
(* The connections.  That the buffer is what follows the last newline, as long *)
(* as it was never thrown away, is what Framed needs of an open connection.    *)

FrameInv ==
    \A c \in Connection :
        /\ conns[c].at = "new" =>
              conns[c].sent = <<>> /\ conns[c].messages = <<>> /\ conns[c].buffer = <<>>
        /\ conns[c].at = "open" /\ ~ conns[c].overflowed =>
              /\ conns[c].buffer = Rest(conns[c].sent)
              /\ conns[c].messages = Lines(conns[c].sent)
        /\ conns[c].at = "closed" /\ ~ conns[c].overflowed =>
              conns[c].messages = Lines(Append(conns[c].sent, Newline))

FInv == TypeOK /\ FrameInv

LEMMA FInvInit == Init => FInv
<1> SUFFICES ASSUME Init PROVE FInv
  OBVIOUS
<1>1. ASSUME NEW c \in Connection
      PROVE  /\ conns[c] \in Conn /\ conns[c].at = "new" /\ conns[c].sent = <<>>
             /\ conns[c].messages = <<>> /\ conns[c].buffer = <<>>
  <2>1. conns[c] \in [at : {"new"}, from : Address, buffer : {<<>>}, sent : {<<>>},
                      messages : {<<>>}, overflowed : {FALSE}]
    BY DEF Init
  <2>2. <<>> \in Seq(Byte) /\ <<>> \in Seq(Seq(Byte))
    BY EmptySeq, Zenon
  <2> QED
    BY <2>1, <2>2 DEF Conn
<1>2. conns \in [Connection -> Conn]
  BY <1>1 DEF Init
<1>3. \A c \in Connection : Len(conns[c].buffer) <= MaxTcpSize
  BY <1>1, StreamAssumption
<1>4. TypeOK
  <2>1. 0 \in 0 .. MaxListChanges /\ {} \subseteq SUBSET Address
    BY ListAssumption
  <2>2. listed \subseteq Address
    BY DEF Init
  <2> QED
    BY <1>2, <1>3, <2>1, <2>2 DEF Init, TypeOK
<1> QED
  BY <1>1, <1>4 DEF FInv, FrameInv

\* A step that leaves the connections alone.
LEMMA FInvStays ==
    ASSUME FInv, UNCHANGED conns, TypeOK'
    PROVE  FInv'
  BY DEF FInv, FrameInv

\* A step of one connection.
LEMMA OneConnection ==
    ASSUME FInv, NEW c \in Connection, NEW r,
           conns' = [conns EXCEPT ![c] = r], r \in Conn, Len(r.buffer) <= MaxTcpSize,
           phase' = phase, UNCHANGED <<api, lists, ports>>, heard' \subseteq Address,
           r.at # "new",
           r.at = "open" /\ ~ r.overflowed =>
              r.buffer = Rest(r.sent) /\ r.messages = Lines(r.sent),
           r.at = "closed" /\ ~ r.overflowed =>
              r.messages = Lines(Append(r.sent, Newline))
    PROVE  FInv'
<1>1. conns \in [Connection -> Conn]
  BY DEF FInv, TypeOK
<1>2. /\ conns' \in [Connection -> Conn] /\ conns'[c] = r
      /\ \A d \in Connection : d # c => conns'[d] = conns[d]
  BY <1>1
<1>3. TypeOK'
  BY <1>2 DEF FInv, TypeOK, api, lists, ports
<1>4. FrameInv'
  <2> SUFFICES ASSUME NEW d \in Connection
      PROVE  /\ conns'[d].at = "new" =>
                   /\ conns'[d].sent = <<>> /\ conns'[d].messages = <<>>
                   /\ conns'[d].buffer = <<>>
             /\ conns'[d].at = "open" /\ ~ conns'[d].overflowed =>
                   /\ conns'[d].buffer = Rest(conns'[d].sent)
                   /\ conns'[d].messages = Lines(conns'[d].sent)
             /\ conns'[d].at = "closed" /\ ~ conns'[d].overflowed =>
                   conns'[d].messages = Lines(Append(conns'[d].sent, Newline))
    BY DEF FrameInv
  <2>1. CASE d = c
    BY <1>2, <2>1
  <2>2. CASE d # c
    BY <1>2, <2>2 DEF FInv, FrameInv
  <2> QED
    BY <2>1, <2>2
<1> QED
  BY <1>3, <1>4 DEF FInv

\* However the stream is cut into chunks.
LEMMA DataKeepsFrames ==
    ASSUME FInv, NEW c \in Connection, NEW chunk \in Seq(Byte), DataReceived(c, chunk)
    PROVE  FInv'
<1> DEFINE k   == conns[c]
           all == k.buffer \o chunk
           r   == [k EXCEPT !.sent = @ \o chunk, !.messages = @ \o Lines(all),
                            !.buffer = Kept(Rest(all)),
                            !.overflowed = @ \/ TooLong(Rest(all))]
<1>1. /\ k \in Conn /\ k.at = "open"
      /\ conns' = [conns EXCEPT ![c] = r]
      /\ phase' = phase /\ UNCHANGED <<api, lists, ports>>
  BY DEF DataReceived, Received, FInv, TypeOK
<1>2. heard' \subseteq Address
  <2>1. OnSyslogMessage(k.from) => heard' \subseteq Address
    BY <1>1 DEF OnSyslogMessage, FInv, TypeOK, Conn
  <2> QED
    BY <2>1 DEF DataReceived, FInv, TypeOK
<1> HIDE DEF k
<1>3. /\ k.buffer \in Seq(Byte) /\ k.sent \in Seq(Byte) /\ k.messages \in Seq(Seq(Byte))
      /\ k.overflowed \in BOOLEAN
  BY <1>1 DEF Conn
<1>4. /\ all \in Seq(Byte) /\ Lines(all) \in Seq(Seq(Byte)) /\ Rest(all) \in Seq(Byte)
      /\ k.sent \o chunk \in Seq(Byte)
  <2>1. all \in Seq(Byte) /\ k.sent \o chunk \in Seq(Byte)
    BY <1>3, ConcatProperties
  <2> HIDE DEF all
  <2> QED
    BY <2>1, LinesType, LastBreakIs, RestIs
<1>5. k.messages \o Lines(all) \in Seq(Seq(Byte))
  BY <1>3, <1>4, ConcatProperties
<1>6. Kept(Rest(all)) \in Seq(Byte) /\ Len(Kept(Rest(all))) <= MaxTcpSize
  <2> HIDE DEF all
  <2>1. CASE TooLong(Rest(all))
    BY <2>1, EmptySeq, StreamAssumption DEF Kept
  <2>2. CASE ~ TooLong(Rest(all))
    BY <1>4, <2>2, StreamAssumption DEF Kept, TooLong
  <2> QED
    BY <2>1, <2>2
<1>7. /\ r.sent = k.sent \o chunk /\ r.messages = k.messages \o Lines(all)
      /\ r.buffer = Kept(Rest(all)) /\ r.at = "open" /\ r.from = k.from
      /\ r.overflowed = (k.overflowed \/ TooLong(Rest(all)))
  BY <1>1 DEF Conn
<1>8. r \in Conn
  <2>1. (k.overflowed \/ TooLong(Rest(all))) \in BOOLEAN
    BY <1>3 DEF TooLong
  <2> HIDE DEF all
  <2> QED
    BY <1>1, <1>4, <1>5, <1>6, <2>1 DEF Conn
<1>9. ASSUME ~ r.overflowed
      PROVE  r.buffer = Rest(r.sent) /\ r.messages = Lines(r.sent)
  <2>1. ~ k.overflowed /\ ~ TooLong(Rest(all))
    BY <1>7, <1>9
  <2>2. k.buffer = Rest(k.sent) /\ k.messages = Lines(k.sent)
    BY <1>1, <2>1 DEF FInv, FrameInv, k
  <2>3. Lines(k.sent \o chunk) = Lines(k.sent) \o Lines(all)
    BY <1>3, <2>2, LinesOfConcat
  <2>4. Rest(k.sent \o chunk) = Rest(all)
    BY <1>3, <2>2, RestOfConcat
  <2>5. Kept(Rest(all)) = Rest(all)
    BY <2>1 DEF Kept
  <2> HIDE DEF all, r
  <2> QED
    BY <1>7, <2>2, <2>3, <2>4, <2>5
<1> HIDE DEF r
<1> QED
  BY <1>1, <1>2, <1>6, <1>7, <1>8, <1>9, OneConnection

\* What is left is the last message.
LEMMA LossKeepsFrames ==
    ASSUME FInv, NEW c \in Connection, ConnectionLost(c)
    PROVE  FInv'
<1> DEFINE k == conns[c]
           r == [k EXCEPT !.at = "closed", !.buffer = <<>>, !.messages = @ \o Remainder(c)]
<1>1. /\ k \in Conn /\ k.at = "open"
      /\ conns' = [conns EXCEPT ![c] = r]
      /\ phase' = phase /\ UNCHANGED <<api, lists, ports>>
  BY DEF ConnectionLost, FInv, TypeOK
<1>2. heard' \subseteq Address
  <2>1. OnSyslogMessage(k.from) => heard' \subseteq Address
    BY <1>1 DEF OnSyslogMessage, FInv, TypeOK, Conn
  <2> QED
    BY <2>1 DEF ConnectionLost, FInv, TypeOK
<1>m. Remainder(c) = IF k.buffer = <<>> THEN <<>> ELSE <<k.buffer>>
  BY DEF Remainder
<1>f. k.at = "open" /\ ~ k.overflowed =>
          k.buffer = Rest(k.sent) /\ k.messages = Lines(k.sent)
  BY DEF FInv, FrameInv
<1> HIDE DEF k
<1>3. /\ k.buffer \in Seq(Byte) /\ k.sent \in Seq(Byte) /\ k.messages \in Seq(Seq(Byte))
      /\ k.overflowed \in BOOLEAN
  BY <1>1 DEF Conn
<1>4. Remainder(c) \in Seq(Seq(Byte))
  <2>1. <<k.buffer>> \in Seq(Seq(Byte)) /\ <<>> \in Seq(Seq(Byte))
    BY <1>3
  <2> QED
    BY <1>m, <2>1
<1>5. k.messages \o Remainder(c) \in Seq(Seq(Byte))
  BY <1>3, <1>4, ConcatProperties
<1>6. <<>> \in Seq(Byte) /\ Len(<<>>) <= MaxTcpSize
  BY EmptySeq, StreamAssumption
<1>7. /\ r.sent = k.sent /\ r.messages = k.messages \o Remainder(c) /\ r.buffer = <<>>
      /\ r.at = "closed" /\ r.from = k.from /\ r.overflowed = k.overflowed
  BY <1>1 DEF Conn
<1>8. r \in Conn
  BY <1>1, <1>5, <1>6 DEF Conn
<1>9. ASSUME ~ r.overflowed PROVE r.messages = Lines(Append(r.sent, Newline))
  <2>1. k.buffer = Rest(k.sent) /\ k.messages = Lines(k.sent)
    BY <1>1, <1>7, <1>9, <1>f
  <2>2. /\ <<Newline>> \in Seq(Byte)
        /\ Append(k.sent, Newline) = k.sent \o <<Newline>>
    <3>1. Newline \in Byte
      BY DEF Byte
    <3> QED
      BY <1>3, <3>1, AppendIsConcat
  <2>3. Lines(k.sent \o <<Newline>>) = Lines(k.sent) \o Lines(k.buffer \o <<Newline>>)
    BY <1>3, <2>1, <2>2, LinesOfConcat
  <2>4. \A i \in 1 .. Len(k.buffer) : k.buffer[i] # Newline
    <3> DEFINE b == LastBreak(k.sent)
    <3>1. IsLastBreak(k.sent, b)
      BY <1>3, LastBreakIs
    <3> HIDE DEF b
    <3>2. /\ Len(k.buffer) = Len(k.sent) - b
          /\ \A i \in 1 .. Len(k.sent) - b : k.buffer[i] = k.sent[b + i]
      BY <1>3, <2>1, <3>1, RestIs
    <3>3. b \in 0 .. Len(k.sent) /\ \A i \in b + 1 .. Len(k.sent) : k.sent[i] # Newline
      BY <3>1 DEF IsLastBreak
    <3>4. \A i \in 1 .. Len(k.sent) - b : b + i \in b + 1 .. Len(k.sent)
      BY <1>3, <3>3
    <3> QED
      BY <3>2, <3>3, <3>4
  <2>5. Lines(k.buffer \o <<Newline>>) = Remainder(c)
    BY <1>3, <1>m, <2>4, LastLine
  <2> HIDE DEF r
  <2> QED
    BY <1>7, <2>1, <2>2, <2>3, <2>5
<1> HIDE DEF r
<1> QED
  BY <1>1, <1>2, <1>6, <1>7, <1>8, <1>9, OneConnection

LEMMA MadeKeepsFrames ==
    ASSUME FInv, NEW c \in Connection, ConnectionMade(c)
    PROVE  FInv'
<1> DEFINE k == conns[c]
           r == [k EXCEPT !.at = IF Passes(k.from, allowed) THEN "open" ELSE "closed"]
<1>1. /\ k \in Conn /\ k.at = "new" /\ Len(k.buffer) <= MaxTcpSize
      /\ conns' = [conns EXCEPT ![c] = r]
      /\ phase' = phase /\ UNCHANGED <<api, lists, ports>> /\ heard' \subseteq Address
  BY DEF ConnectionMade, FInv, TypeOK
<1>2. k.sent = <<>> /\ k.messages = <<>> /\ k.buffer = <<>>
  BY <1>1 DEF FInv, FrameInv
<1> HIDE DEF k
<1>3. /\ r.sent = <<>> /\ r.messages = <<>> /\ r.buffer = <<>>
      /\ r.at \in {"open", "closed"} /\ r \in Conn /\ Len(r.buffer) <= MaxTcpSize
  BY <1>1, <1>2 DEF Conn
<1> HIDE DEF r
<1>4. r.buffer = Rest(r.sent) /\ r.messages = Lines(r.sent)
  BY <1>3, NoLines
<1>5. Lines(Append(<<>>, Newline)) = <<>>
  <2> DEFINE e == <<>>
  <2>1. e \in Seq(Byte) /\ Len(e) = 0 /\ e = <<>> /\ Newline \in Byte
    BY EmptySeq DEF Byte
  <2> HIDE DEF e
  <2>2. \A i \in 1 .. Len(e) : e[i] # Newline
    BY <2>1
  <2>3. Lines(e \o <<Newline>>) = <<>>
    BY <2>1, <2>2, LastLine
  <2>4. Append(e, Newline) = e \o <<Newline>>
    BY <2>1, AppendIsConcat
  <2> QED
    BY <2>1, <2>3, <2>4
<1> QED
  BY <1>1, <1>3, <1>4, <1>5, OneConnection

LEMMA ChunkType ==
    ASSUME NEW c \in Connection, NEW chunk \in Chunks(c)
    PROVE  chunk \in Seq(Byte)
<1>1. PICK m \in Nat : chunk \in [1 .. m -> Byte]
  BY DEF Chunks, BoundedSeq, SeqOf
<1> QED
  BY <1>1, SeqDef

LEMMA FInvNext == FInv /\ [Next]_vars => FInv'
<1> SUFFICES ASSUME FInv, [Next]_vars PROVE FInv'
  OBVIOUS
<1>1. CASE ApiChanges
  <2>1. /\ changes' \in 0 .. MaxListChanges
        /\ listed' \subseteq Address /\ everListed' \subseteq Address
    BY <1>1, ListAssumption DEF ApiChanges, FInv, TypeOK
  <2> QED
    BY <1>1, <2>1, FInvStays DEF ApiChanges, FInv, TypeOK, lists, ports
<1>2. CASE FetchInitial \/ RefreshOk \/ RefreshFails
  <2>1. allowed' \subseteq Address /\ trapAllowed' \subseteq Address
    BY <1>2 DEF FetchInitial, FetchResults, RefreshOk, RefreshFails, SetAllowedSources,
        FInv, TypeOK
  <2>2. /\ phase' \in {"fetch", "bind", "up", "stopping", "stopped", "exited"}
        /\ UNCHANGED <<api, ports, conns, heard>>
    BY <1>2 DEF FetchInitial, RefreshOk, RefreshFails
  <2> QED
    BY <2>1, <2>2, FInvStays DEF FInv, TypeOK, api, ports
<1>3. CASE FetchRaises \/ Stop \/ StopReceiver
  BY <1>3, FInvStays DEF FetchRaises, Stop, StopReceiver, FInv, TypeOK, api, lists, ports
<1>4. CASE Bind
  <2>1. udp' \subseteq SUBSET Address /\ tcp' \in BOOLEAN
    BY <1>4 DEF Bind, FInv, TypeOK
  <2> QED
    BY <1>4, <2>1, FInvStays DEF Bind, FInv, TypeOK, api, lists
<1>5. ASSUME NEW a \in Address, DatagramReceived(a) \/ TrapReceived(a)
      PROVE  FInv'
  <2>1. heard' \subseteq Address
    BY <1>5 DEF DatagramReceived, TrapReceived, OnSyslogMessage, FInv, TypeOK
  <2>2. UNCHANGED <<phase, api, lists, ports, conns>>
    BY <1>5 DEF DatagramReceived, TrapReceived
  <2> QED
    BY <2>1, <2>2, FInvStays DEF FInv, TypeOK, api, lists, ports
<1>6. ASSUME NEW c \in Connection, NEW chunk \in Chunks(c), DataReceived(c, chunk)
      PROVE  FInv'
  BY <1>6, ChunkType, DataKeepsFrames
<1>7. ASSUME NEW c \in Connection, ConnectionMade(c) \/ ConnectionLost(c)
      PROVE  FInv'
  BY <1>7, MadeKeepsFrames, LossKeepsFrames
<1>8. CASE UNCHANGED vars
  BY <1>8, FInvStays DEF vars, FInv, TypeOK, api, lists, ports
<1> QED
  BY <1>1, <1>2, <1>3, <1>4, <1>5, <1>6, <1>7, <1>8 DEF Next, Finished

\* Whatever comes in whatever chunks, and however the lists change, each variable
\* keeps to its values and no buffer that is kept outgrows MAX_TCP_SIZE (TypeOK).
THEOREM TypeCorrect == Spec => []TypeOK
<1>1. FInv => TypeOK
  BY DEF FInv
<1> QED
  BY <1>1, FInvInit, FInvNext, PTL DEF Spec

\* However a stream is cut into chunks, the messages of its connection are its
\* lines, in order, unless one was too long (Framed).
THEOREM StreamsAreFramed == Spec => []Framed
<1>1. FInv => Framed
  <2> SUFFICES ASSUME FInv, NEW c \in Connection, ~ conns[c].overflowed
      PROVE  conns[c].messages = IF conns[c].at = "closed"
                                 THEN Lines(Append(conns[c].sent, Newline))
                                 ELSE Lines(conns[c].sent)
    BY DEF FInv, Framed
  <2>1. conns[c].at \in {"new", "open", "closed"}
    BY DEF FInv, TypeOK, Conn
  <2>2. CASE conns[c].at = "new"
    BY <2>2, NoLines DEF FInv, FrameInv
  <2>3. CASE conns[c].at # "new"
    BY <2>1, <2>3 DEF FInv, FrameInv
  <2> QED
    BY <2>2, <2>3
<1> QED
  BY <1>1, FInvInit, FInvNext, PTL DEF Spec

-----------------------------------------------------------------------------
(* A line that is too long.  Framed says nothing of its connection; what still *)
(* holds is that a message is a piece of one line of what was sent.            *)

NoNewline(m) == \A i \in 1 .. Len(m) : m[i] # Newline

\* The bytes of m stand one behind the other in s, and at its end.
IsRun(m, s) ==
    \E n \in Nat : n + Len(m) <= Len(s) /\ \A i \in 1 .. Len(m) : m[i] = s[n + i]
EndsWith(s, t) ==
    Len(t) <= Len(s) /\ \A i \in 1 .. Len(t) : t[i] = s[Len(s) - Len(t) + i]

\* A piece of a line of s.
Piece(m, s) == m # <<>> /\ NoNewline(m) /\ IsRun(m, s)

MessagesArePieces ==
    \A c \in Connection : \A k \in 1 .. Len(conns[c].messages) :
        Piece(conns[c].messages[k], conns[c].sent)

\* The buffer is the end of what was sent, thrown away or not.
BufferInv ==
    \A c \in Connection :
        NoNewline(conns[c].buffer) /\ EndsWith(conns[c].sent, conns[c].buffer)

\* A complete line is a piece of its stream.
LEMMA LineIsPiece ==
    ASSUME NEW s \in Seq(Byte), NEW e \in Ends(s)
    PROVE  Line(s, e) \in Seq(Byte) /\ Piece(Line(s, e), s)
<1> DEFINE p == SubSeq(s, 1, e - 1)
           b == LastBreak(p)
<1>1. e \in 1 .. Len(s) /\ Len(s) \in Nat /\ Line(s, e) # <<>>
  BY DEF Ends, Breaks
<1>2. p \in Seq(Byte) /\ Len(p) = e - 1 /\ \A i \in 1 .. e - 1 : p[i] = s[i]
  BY <1>1, PrefixIs
<1>3. Line(s, e) = Rest(p)
  BY DEF Line
<1> HIDE DEF p
<1>4. IsLastBreak(p, b)
  BY <1>2, LastBreakIs
<1> HIDE DEF b
<1>5. /\ Rest(p) \in Seq(Byte) /\ Len(Rest(p)) = e - 1 - b
      /\ \A i \in 1 .. e - 1 - b : Rest(p)[i] = p[b + i]
  BY <1>2, <1>4, RestIs
<1>6. b \in 0 .. e - 1 /\ \A i \in b + 1 .. e - 1 : p[i] # Newline
  BY <1>2, <1>4 DEF IsLastBreak
<1>7. \A i \in 1 .. e - 1 - b : b + i \in b + 1 .. e - 1 /\ b + i \in 1 .. e - 1
  BY <1>1, <1>6
<1>8. NoNewline(Rest(p))
  BY <1>5, <1>6, <1>7 DEF NoNewline
<1>9. IsRun(Rest(p), s)
  <2>1. b \in Nat /\ b + Len(Rest(p)) <= Len(s)
    BY <1>1, <1>5, <1>6
  <2>2. \A i \in 1 .. Len(Rest(p)) : Rest(p)[i] = s[b + i]
    BY <1>2, <1>5, <1>7
  <2> QED
    BY <2>1, <2>2 DEF IsRun
<1> QED
  BY <1>1, <1>3, <1>5, <1>8, <1>9 DEF Piece

\* Every message of Lines(s) is one.
LEMMA LinesArePieces ==
    ASSUME NEW s \in Seq(Byte), NEW k \in 1 .. Len(Lines(s))
    PROVE  Lines(s)[k] \in Seq(Byte) /\ Piece(Lines(s)[k], s)
<1>1. /\ Ends(s) \in SUBSET (1 .. Len(s)) /\ Len(s) \in Nat /\ k \in 1 .. Cardinality(Ends(s))
      /\ Lines(s)[k] = Line(s, Nth(Ends(s), k))
  BY LinesType
<1>2. Nth(Ends(s), k) \in Ends(s)
  BY <1>1, NthIs
<1> QED
  BY <1>1, <1>2, LineIsPiece

LEMMA RestEnds ==
    ASSUME NEW s \in Seq(Byte)
    PROVE  Rest(s) \in Seq(Byte) /\ NoNewline(Rest(s)) /\ EndsWith(s, Rest(s))
<1> DEFINE b == LastBreak(s)
<1>1. IsLastBreak(s, b)
  BY LastBreakIs
<1> HIDE DEF b
<1>2. /\ Rest(s) \in Seq(Byte) /\ Len(Rest(s)) = Len(s) - b
      /\ \A i \in 1 .. Len(s) - b : Rest(s)[i] = s[b + i]
  BY <1>1, RestIs
<1>3. /\ b \in 0 .. Len(s) /\ Len(s) \in Nat
      /\ \A i \in b + 1 .. Len(s) : s[i] # Newline
  BY <1>1 DEF IsLastBreak
<1>4. \A i \in 1 .. Len(s) - b : b + i \in b + 1 .. Len(s)
  BY <1>3
<1>5. Len(s) - Len(Rest(s)) = b /\ Len(Rest(s)) <= Len(s)
  BY <1>2, <1>3
<1> QED
  BY <1>2, <1>3, <1>4, <1>5 DEF NoNewline, EndsWith

\* What comes behind a stream does not move its pieces ...
LEMMA PieceStays ==
    ASSUME NEW s \in Seq(Byte), NEW t \in Seq(Byte), NEW m \in Seq(Byte), Piece(m, s)
    PROVE  Piece(m, s \o t)
<1>1. PICK n \in Nat : n + Len(m) <= Len(s) /\ \A i \in 1 .. Len(m) : m[i] = s[n + i]
  BY DEF Piece, IsRun
<1>2. /\ Len(s \o t) = Len(s) + Len(t) /\ Len(s) \in Nat /\ Len(t) \in Nat /\ Len(m) \in Nat
      /\ \A i \in 1 .. Len(s) : (s \o t)[i] = s[i]
  BY ConcatProperties
<1>3. \A i \in 1 .. Len(m) : n + i \in 1 .. Len(s)
  BY <1>1, <1>2
<1>4. n + Len(m) <= Len(s \o t)
  BY <1>1, <1>2
<1>5. \A i \in 1 .. Len(m) : m[i] = (s \o t)[n + i]
  BY <1>1, <1>2, <1>3
<1> QED
  BY <1>4, <1>5 DEF Piece, IsRun

\* ... and a piece of its end is a piece of it.
LEMMA PieceOfEnd ==
    ASSUME NEW s \in Seq(Byte), NEW t \in Seq(Byte), NEW m \in Seq(Byte),
           EndsWith(s, t), Piece(m, t)
    PROVE  Piece(m, s)
<1>1. PICK n \in Nat : n + Len(m) <= Len(t) /\ \A i \in 1 .. Len(m) : m[i] = t[n + i]
  BY DEF Piece, IsRun
<1> DEFINE d == Len(s) - Len(t)
<1>2. /\ d \in Nat /\ \A i \in 1 .. Len(t) : t[i] = s[d + i]
      /\ Len(s) \in Nat /\ Len(t) \in Nat /\ Len(m) \in Nat /\ d + Len(t) = Len(s)
  BY DEF EndsWith
<1> HIDE DEF d
<1>3. \A i \in 1 .. Len(m) : n + i \in 1 .. Len(t) /\ d + (n + i) = (d + n) + i
  BY <1>1, <1>2
<1>4. d + n \in Nat /\ (d + n) + Len(m) <= Len(s)
  BY <1>1, <1>2
<1>5. \A i \in 1 .. Len(m) : m[i] = s[(d + n) + i]
  BY <1>1, <1>2, <1>3
<1> QED
  BY <1>4, <1>5 DEF Piece, IsRun

LEMMA EndOfEnd ==
    ASSUME NEW s \in Seq(Byte), NEW t \in Seq(Byte), NEW u \in Seq(Byte),
           EndsWith(s, t), EndsWith(t, u)
    PROVE  EndsWith(s, u)
<1>1. /\ Len(s) \in Nat /\ Len(t) \in Nat /\ Len(u) \in Nat
      /\ Len(u) <= Len(t) /\ Len(t) <= Len(s)
  BY DEF EndsWith
<1>2. ASSUME NEW i \in 1 .. Len(u) PROVE u[i] = s[Len(s) - Len(u) + i]
  <2> DEFINE j == Len(t) - Len(u) + i
  <2>1. j \in 1 .. Len(t) /\ Len(s) - Len(t) + j = Len(s) - Len(u) + i
    BY <1>1
  <2>2. u[i] = t[j]
    BY DEF EndsWith
  <2> HIDE DEF j
  <2>3. t[j] = s[Len(s) - Len(t) + j]
    BY <2>1 DEF EndsWith
  <2> QED
    BY <2>1, <2>2, <2>3
<1> QED
  BY <1>1, <1>2 DEF EndsWith

LEMMA EndOfConcat ==
    ASSUME NEW s \in Seq(Byte), NEW t \in Seq(Byte), NEW u \in Seq(Byte), EndsWith(s, t)
    PROVE  EndsWith(s \o u, t \o u)
<1>1. /\ Len(s \o u) = Len(s) + Len(u) /\ Len(t \o u) = Len(t) + Len(u)
      /\ Len(s) \in Nat /\ Len(t) \in Nat /\ Len(u) \in Nat /\ Len(t) <= Len(s)
      /\ \A i \in 1 .. Len(s) : (s \o u)[i] = s[i]
      /\ \A i \in 1 .. Len(u) : (s \o u)[Len(s) + i] = u[i]
      /\ \A i \in 1 .. Len(t) : (t \o u)[i] = t[i]
      /\ \A i \in 1 .. Len(u) : (t \o u)[Len(t) + i] = u[i]
  BY ConcatProperties DEF EndsWith
<1> DEFINE d == Len(s) - Len(t)
<1>2. ASSUME NEW i \in 1 .. Len(t) + Len(u) PROVE (t \o u)[i] = (s \o u)[d + i]
  <2>1. CASE i \in 1 .. Len(t)
    <3>1. d + i \in 1 .. Len(s) /\ t[i] = s[d + i]
      BY <1>1, <2>1 DEF EndsWith
    <3> QED
      BY <1>1, <2>1, <3>1
  <2>2. CASE i \notin 1 .. Len(t)
    <3> DEFINE j == i - Len(t)
    <3>1. j \in 1 .. Len(u) /\ Len(t) + j = i /\ Len(s) + j = d + i
      BY <1>1, <2>2
    <3> HIDE DEF j, d
    <3> QED
      BY <1>1, <3>1
  <2> QED
    BY <2>1, <2>2
<1>3. Len(s \o u) - Len(t \o u) = d
  BY <1>1
<1> QED
  BY <1>1, <1>2, <1>3 DEF EndsWith

LEMMA PiecesInit == Init => BufferInv /\ MessagesArePieces
<1> SUFFICES ASSUME Init, NEW c \in Connection
             PROVE  /\ NoNewline(conns[c].buffer) /\ EndsWith(conns[c].sent, conns[c].buffer)
                    /\ \A k \in 1 .. Len(conns[c].messages) :
                          Piece(conns[c].messages[k], conns[c].sent)
  BY DEF BufferInv, MessagesArePieces
<1>1. conns[c].sent = <<>> /\ conns[c].messages = <<>> /\ conns[c].buffer = <<>>
  BY DEF Init
<1>2. Len(<<>>) = 0
  BY EmptySeq
<1> QED
  BY <1>1, <1>2 DEF NoNewline, EndsWith

\* A step of one connection.
LEMMA OneConnectionPieces ==
    ASSUME FInv, BufferInv, MessagesArePieces, NEW c \in Connection, NEW r,
           conns' = [conns EXCEPT ![c] = r],
           NoNewline(r.buffer), EndsWith(r.sent, r.buffer),
           \A k \in 1 .. Len(r.messages) : Piece(r.messages[k], r.sent)
    PROVE  BufferInv' /\ MessagesArePieces'
<1>1. conns' = [conns EXCEPT ![c] = r] /\ conns \in [Connection -> Conn]
  BY DEF FInv, TypeOK
<1>2. conns'[c] = r /\ \A d \in Connection : d # c => conns'[d] = conns[d]
  BY <1>1
<1>3. ASSUME NEW d \in Connection
      PROVE  /\ NoNewline(conns'[d].buffer) /\ EndsWith(conns'[d].sent, conns'[d].buffer)
             /\ \A k \in 1 .. Len(conns'[d].messages) :
                   Piece(conns'[d].messages[k], conns'[d].sent)
  <2>1. CASE d = c
    BY <1>2, <2>1
  <2>2. CASE d # c
    BY <1>2, <2>2 DEF BufferInv, MessagesArePieces
  <2> QED
    BY <2>1, <2>2
<1> QED
  BY <1>3 DEF BufferInv, MessagesArePieces

LEMMA DataKeepsPieces ==
    ASSUME FInv, BufferInv, MessagesArePieces,
           NEW c \in Connection, NEW chunk \in Seq(Byte), DataReceived(c, chunk)
    PROVE  BufferInv' /\ MessagesArePieces'
<1> DEFINE k   == conns[c]
           all == k.buffer \o chunk
           r   == [k EXCEPT !.sent = @ \o chunk, !.messages = @ \o Lines(all),
                            !.buffer = Kept(Rest(all)),
                            !.overflowed = @ \/ TooLong(Rest(all))]
<1>1. k \in Conn /\ conns' = [conns EXCEPT ![c] = r]
  BY DEF DataReceived, Received, FInv, TypeOK
<1>2. EndsWith(k.sent, k.buffer) /\ \A i \in 1 .. Len(k.messages) : Piece(k.messages[i], k.sent)
  BY DEF BufferInv, MessagesArePieces
<1> HIDE DEF k
<1>3. k.buffer \in Seq(Byte) /\ k.sent \in Seq(Byte) /\ k.messages \in Seq(Seq(Byte))
  BY <1>1 DEF Conn
<1>4. all \in Seq(Byte) /\ k.sent \o chunk \in Seq(Byte) /\ EndsWith(k.sent \o chunk, all)
  BY <1>2, <1>3, ConcatProperties, EndOfConcat
<1>5. /\ r.sent = k.sent \o chunk /\ r.messages = k.messages \o Lines(all)
      /\ r.buffer = Kept(Rest(all))
  BY <1>1 DEF Conn
<1> HIDE DEF all, r
<1>6. NoNewline(Kept(Rest(all))) /\ EndsWith(k.sent \o chunk, Kept(Rest(all)))
  <2>1. CASE TooLong(Rest(all))
    <3>1. Kept(Rest(all)) = <<>> /\ Len(<<>>) = 0 /\ Len(k.sent \o chunk) \in Nat
      BY <1>4, <2>1, EmptySeq DEF Kept
    <3> QED
      BY <3>1 DEF NoNewline, EndsWith
  <2>2. CASE ~ TooLong(Rest(all))
    <3>1. Kept(Rest(all)) = Rest(all)
      BY <2>2 DEF Kept
    <3> QED
      BY <1>4, <3>1, RestEnds, EndOfEnd
  <2> QED
    BY <2>1, <2>2
<1>7. ASSUME NEW i \in 1 .. Len(k.messages \o Lines(all))
      PROVE  Piece((k.messages \o Lines(all))[i], k.sent \o chunk)
  <2>1. /\ Lines(all) \in Seq(Seq(Byte)) /\ Len(k.messages) \in Nat /\ Len(Lines(all)) \in Nat
        /\ Len(k.messages \o Lines(all)) = Len(k.messages) + Len(Lines(all))
        /\ (k.messages \o Lines(all))[i] =
              IF i <= Len(k.messages) THEN k.messages[i] ELSE Lines(all)[i - Len(k.messages)]
    BY <1>3, <1>4, LinesType, ConcatProperties
  <2>2. CASE i <= Len(k.messages)
    <3>1. i \in 1 .. Len(k.messages)
      BY <2>1, <2>2
    <3>2. k.messages[i] \in Seq(Byte) /\ Piece(k.messages[i], k.sent)
      BY <1>2, <1>3, <3>1
    <3>3. Piece(k.messages[i], k.sent \o chunk)
      BY <1>3, <3>2, PieceStays
    <3> QED
      BY <2>1, <2>2, <3>3
  <2>3. CASE ~ (i <= Len(k.messages))
    <3> DEFINE j == i - Len(k.messages)
    <3>1. j \in 1 .. Len(Lines(all))
      BY <2>1, <2>3
    <3> HIDE DEF j
    <3>2. Lines(all)[j] \in Seq(Byte) /\ Piece(Lines(all)[j], all)
      BY <1>4, <3>1, LinesArePieces
    <3>3. Piece(Lines(all)[j], k.sent \o chunk)
      BY <1>4, <3>2, PieceOfEnd
    <3> QED
      BY <2>1, <2>3, <3>3 DEF j
  <2> QED
    BY <2>2, <2>3
<1> QED
  BY <1>1, <1>5, <1>6, <1>7, OneConnectionPieces

\* What is left when the connection is closed has no newline either.
LEMMA LossKeepsPieces ==
    ASSUME FInv, BufferInv, MessagesArePieces, NEW c \in Connection, ConnectionLost(c)
    PROVE  BufferInv' /\ MessagesArePieces'
<1> DEFINE k == conns[c]
           r == [k EXCEPT !.at = "closed", !.buffer = <<>>, !.messages = @ \o Remainder(c)]
<1>1. k \in Conn /\ conns' = [conns EXCEPT ![c] = r]
  BY DEF ConnectionLost, FInv, TypeOK
<1>2. /\ NoNewline(k.buffer) /\ EndsWith(k.sent, k.buffer)
      /\ \A i \in 1 .. Len(k.messages) : Piece(k.messages[i], k.sent)
  BY DEF BufferInv, MessagesArePieces
<1>m. Remainder(c) = IF k.buffer = <<>> THEN <<>> ELSE <<k.buffer>>
  BY DEF Remainder
<1> HIDE DEF k
<1>3. k.buffer \in Seq(Byte) /\ k.sent \in Seq(Byte) /\ k.messages \in Seq(Seq(Byte))
  BY <1>1 DEF Conn
<1>4. r.sent = k.sent /\ r.messages = k.messages \o Remainder(c) /\ r.buffer = <<>>
  BY <1>1 DEF Conn
<1> HIDE DEF r
<1>5. NoNewline(<<>>) /\ EndsWith(k.sent, <<>>)
  <2>1. Len(<<>>) = 0 /\ Len(k.sent) \in Nat
    BY <1>3, EmptySeq
  <2> QED
    BY <2>1 DEF NoNewline, EndsWith
<1>6. k.buffer # <<>> => Piece(k.buffer, k.sent)
  <2>1. /\ Len(k.sent) - Len(k.buffer) \in Nat
        /\ Len(k.sent) - Len(k.buffer) + Len(k.buffer) <= Len(k.sent)
    BY <1>2, <1>3 DEF EndsWith
  <2> QED
    BY <1>2, <2>1 DEF Piece, IsRun, EndsWith
<1>7. \A i \in 1 .. Len(r.messages) : Piece(r.messages[i], k.sent)
  <2>1. CASE k.buffer = <<>>
    <3>1. r.messages = k.messages
      BY <1>3, <1>4, <1>m, <2>1, ConcatEmptySeq
    <3> QED
      BY <1>2, <3>1
  <2>2. CASE k.buffer # <<>>
    <3>1. r.messages = Append(k.messages, k.buffer)
      BY <1>3, <1>4, <1>m, <2>2, AppendIsConcat
    <3>2. /\ Len(r.messages) = Len(k.messages) + 1 /\ Len(k.messages) \in Nat
          /\ \A i \in 1 .. Len(k.messages) : r.messages[i] = k.messages[i]
          /\ r.messages[Len(k.messages) + 1] = k.buffer
      BY <1>3, <3>1, AppendProperties
    <3> QED
      BY <1>2, <1>6, <2>2, <3>2
  <2> QED
    BY <2>1, <2>2
<1> QED
  BY <1>1, <1>4, <1>5, <1>7, OneConnectionPieces

LEMMA MadeKeepsPieces ==
    ASSUME FInv, BufferInv, MessagesArePieces, NEW c \in Connection, ConnectionMade(c)
    PROVE  BufferInv' /\ MessagesArePieces'
<1> DEFINE k == conns[c]
           r == [k EXCEPT !.at = IF Passes(k.from, allowed) THEN "open" ELSE "closed"]
<1>1. k \in Conn /\ conns' = [conns EXCEPT ![c] = r]
  BY DEF ConnectionMade, FInv, TypeOK
<1>2. /\ NoNewline(k.buffer) /\ EndsWith(k.sent, k.buffer)
      /\ \A i \in 1 .. Len(k.messages) : Piece(k.messages[i], k.sent)
  BY DEF BufferInv, MessagesArePieces
<1> HIDE DEF k
<1>3. r.sent = k.sent /\ r.messages = k.messages /\ r.buffer = k.buffer
  BY <1>1 DEF Conn
<1> HIDE DEF r
<1> QED
  BY <1>1, <1>2, <1>3, OneConnectionPieces

LEMMA PiecesNext ==
    FInv /\ BufferInv /\ MessagesArePieces /\ [Next]_vars => BufferInv' /\ MessagesArePieces'
<1> SUFFICES ASSUME FInv, BufferInv, MessagesArePieces, [Next]_vars
             PROVE  BufferInv' /\ MessagesArePieces'
  OBVIOUS
<1>1. CASE UNCHANGED conns
  BY <1>1 DEF BufferInv, MessagesArePieces
<1>2. ASSUME NEW c \in Connection, NEW chunk \in Chunks(c), DataReceived(c, chunk)
      PROVE  BufferInv' /\ MessagesArePieces'
  BY <1>2, ChunkType, DataKeepsPieces
<1>3. ASSUME NEW c \in Connection, ConnectionMade(c) \/ ConnectionLost(c)
      PROVE  BufferInv' /\ MessagesArePieces'
  BY <1>3, MadeKeepsPieces, LossKeepsPieces
<1>4. CASE \/ ApiChanges \/ FetchInitial \/ FetchRaises \/ Bind \/ RefreshOk \/ RefreshFails
           \/ Stop \/ StopReceiver
  BY <1>1, <1>4 DEF ApiChanges, FetchInitial, FetchRaises, Bind, RefreshOk, RefreshFails,
      Stop, StopReceiver
<1>5. ASSUME NEW a \in Address, DatagramReceived(a) \/ TrapReceived(a)
      PROVE  BufferInv' /\ MessagesArePieces'
  BY <1>1, <1>5 DEF DatagramReceived, TrapReceived
<1>6. CASE UNCHANGED vars
  BY <1>1, <1>6 DEF vars
<1> QED
  BY <1>2, <1>3, <1>4, <1>5, <1>6 DEF Next, Finished

\* Whatever overflows, a message is a piece of a line of its own connection: bytes
\* that stand one behind the other in what was sent, with no newline among them, so
\* that nothing is put together over a newline or over a buffer thrown away.
THEOREM LongLinesDoNotMix == Spec => []MessagesArePieces
<1>1. Init => FInv /\ BufferInv /\ MessagesArePieces
  BY FInvInit, PiecesInit
<1>2. FInv /\ BufferInv /\ MessagesArePieces /\ [Next]_vars
        => (FInv /\ BufferInv /\ MessagesArePieces)'
  BY FInvNext, PiecesNext
<1> QED
  BY <1>1, <1>2, PTL DEF Spec

-----------------------------------------------------------------------------
(* What a message says, for every priority and every month *)

\* The patterns accept priorities far beyond RFC 3164's 191.  Whatever comes, the
\* severity is one of the eight that have names, no two priorities become the
\* same pair, and exactly the valid ones have a facility that has a name.
THEOREM PriorityIsRead ==
    \A m \in Message : m.matches # {} =>
        /\ Parse(m).severity \in 0 .. 7
        /\ 8 * Parse(m).facility + Parse(m).severity = m.pri
        /\ HasName(Parse(m).facility) <=> m.pri <= 191
<1> SUFFICES ASSUME NEW m \in Message, m.matches # {}
             PROVE  /\ Parse(m).severity \in 0 .. 7
                    /\ 8 * Parse(m).facility + Parse(m).severity = m.pri
                    /\ HasName(Parse(m).facility) <=> m.pri <= 191
  OBVIOUS
<1> DEFINE p == m.pri
<1>1. p \in 0 .. 999
  BY DEF Message, Pri
<1>2. Parse(m) = [facility |-> p \div 8, severity |-> p % 8]
  BY DEF Parse, ParsePriority
<1> HIDE DEF p
<1>3. p \div 8 \in Int /\ p % 8 \in 0 .. 7
  BY <1>1
<1>4. 8 * (p \div 8) + (p % 8) = p
  BY <1>1
<1>5. (p \div 8 \in 0 .. 23) <=> (p <= 191)
  BY <1>1, <1>3, <1>4
<1>6. HasName(Parse(m).facility) <=> (p \div 8 \in 0 .. 23)
  BY <1>2 DEF HasName, Facilities
<1> QED
  BY <1>2, <1>3, <1>4, <1>5, <1>6 DEF p

\* RFC 3164 leaves out the year.  A message of this month or the last is dated
\* in its own year, at the turn of the year too.
THEOREM YearIsGuessed ==
    \A sent, now \in Date :
        Months(now) - Months(sent) \in {0, 1} => Dated(sent.month, now) = sent
<1> SUFFICES ASSUME NEW sent \in Date, NEW now \in Date,
                    Months(now) - Months(sent) \in {0, 1}
             PROVE  Dated(sent.month, now) = sent
  OBVIOUS
<1>1. /\ sent.year \in Nat /\ now.year \in Nat
      /\ sent.month \in 1 .. 12 /\ now.month \in 1 .. 12
  BY DEF Date
<1>2. Months(now) - Months(sent) = 12 * (now.year - sent.year) + now.month - sent.month
  <2>1. /\ Months(now) = 12 * now.year + now.month
        /\ Months(sent) = 12 * sent.year + sent.month
    BY DEF Months
  <2>2. \A x, y \in Nat : \A a, b \in 1 .. 12 :
            (12 * x + a) - (12 * y + b) = 12 * (x - y) + a - b
    OBVIOUS
  <2> QED
    BY <1>1, <2>1, <2>2
<1>3. sent.year = IF sent.month = 12 /\ now.month = 1 THEN now.year - 1 ELSE now.year
  BY <1>1, <1>2
<1>4. sent = [year |-> sent.year, month |-> sent.month]
  BY DEF Date
<1> QED
  BY <1>3, <1>4 DEF Dated

=============================================================================

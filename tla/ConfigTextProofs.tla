------------------------- MODULE ConfigTextProofs -------------------------
(***************************************************************************)
(* What TLAPS proves of the texts of a configuration, for every text: what *)
(* trimming leaves, what a valid listen address is and where it sends a    *)
(* local agent, and what a valid endpoint URL is made of.  ListenAddr and  *)
(* EndpointUrl define them with operators of SequencesExt, which the       *)
(* lemmas here restate over positions.                                     *)
(***************************************************************************)
EXTENDS ConfigResolve, TLAPS, WellFoundedInduction, SequenceTheorems

(* Positions in a sequence.                                                *)

\* Every set of positions of a list has a first one.
LEMMA FirstPosition ==
    ASSUME NEW S \in SUBSET Nat, S # {}
    PROVE  Min(S) \in S /\ \A i \in S : Min(S) =< i
<1>1. \E x \in S : \A y \in S : <<y, x>> \notin OpToRel(<, Nat)
  BY NatLessThanWellFounded, WFMin
<1>2. PICK x \in S : \A y \in S : <<y, x>> \notin OpToRel(<, Nat)
  BY <1>1
<1>3. ASSUME NEW y \in S PROVE x =< y
  <2>1. <<y, x>> \in Nat \X Nat
    OBVIOUS
  <2>2. <<y, x>> \notin {ss \in Nat \X Nat : ss[1] < ss[2]}
    BY <1>2 DEF OpToRel
  <2> QED BY <2>1, <2>2
<1> QED BY <1>3 DEF Min

\* The maximum of a set of numbers, given one.
LEMMA MaxIs ==
    ASSUME NEW S \in SUBSET Nat, NEW x \in S, \A y \in S : x >= y PROVE Max(S) = x
<1>1. \E z \in S : \A y \in S : z >= y
  OBVIOUS
<1>2. Max(S) \in S /\ \A y \in S : Max(S) >= y
  BY <1>1 DEF Max
<1>3. Max(S) >= x /\ x >= Max(S) /\ Max(S) \in Nat /\ x \in Nat
  BY <1>2
<1> QED BY <1>3

\* Every set of positions of a list has a last one.
LEMMA LastPosition ==
    ASSUME NEW n \in Nat, NEW P \in SUBSET (1..n), P # {}
    PROVE  Max(P) \in P /\ \A i \in P : i =< Max(P)
<1> DEFINE M == {n - i : i \in P}
<1>1. M \in SUBSET Nat /\ M # {}
  OBVIOUS
<1>2. Min(M) \in M /\ \A j \in M : Min(M) =< j
  BY <1>1, FirstPosition
<1>3. PICK x \in P : Min(M) = n - x
  BY <1>2
<1>4. ASSUME NEW y \in P PROVE x >= y
  <2>1. n - x =< n - y
    BY <1>2, <1>3
  <2> QED BY <2>1
<1>5. Max(P) = x
  BY <1>4, MaxIs
<1> QED BY <1>4, <1>5

\* A part of a sequence is a sequence, of the same tokens.
LEMMA PartOf ==
    ASSUME NEW S, NEW s \in Seq(S), NEW m \in Nat, NEW n \in Int, m >= 1, n =< Len(s)
    PROVE  /\ SubSeq(s, m, n) \in Seq(S)
           /\ Len(SubSeq(s, m, n)) = IF m =< n THEN n - m + 1 ELSE 0
           /\ \A i \in 1..n - m + 1 : SubSeq(s, m, n)[i] = s[m + i - 1]
<1>1. \A i \in m..n : s[i] \in S
  BY ElementOfSeq
<1> QED BY <1>1, SubSeqProperties

-----------------------------------------------------------------------------
(* Trimming.                                                               *)

\* TrimEnd keeps a text up to its last token outside C.
LEMMA TrimEndCut ==
    ASSUME NEW S, NEW s \in Seq(S), NEW C
    PROVE  \E n \in 0..Len(s) :
             /\ Url!TrimEnd(s, C) = SubSeq(s, 1, n)
             /\ n > 0 => s[n] \notin C
             /\ \A i \in n + 1..Len(s) : s[i] \in C
<1> DEFINE K == {i \in 1..Len(s) : s[i] \notin C}
<1>1. Url!TrimEnd(s, C) = SubSeq(s, 1, IF K # {} THEN Max(K) ELSE 0)
  BY Zenon DEF Url!TrimEnd, Url!SelectLastInSeq, Url!Max, Max
<1>2. CASE K = {}
  <2>1. \A i \in 0 + 1..Len(s) : s[i] \in C
    BY <1>2
  <2> QED BY <1>1, <1>2, <2>1
<1>3. CASE K # {}
  <2>1. Max(K) \in K /\ \A i \in K : i =< Max(K)
    <3>1. K \in SUBSET (1..Len(s)) /\ Len(s) \in Nat
      BY LenProperties
    <3> HIDE DEF K
    <3> QED BY <1>3, <3>1, LastPosition
  <2>2. Max(K) \in 1..Len(s) /\ s[Max(K)] \notin C
    BY <2>1
  <2>3. \A i \in Max(K) + 1..Len(s) : s[i] \in C
    BY <2>1, <2>2
  <2>4. Url!TrimEnd(s, C) = SubSeq(s, 1, Max(K))
    BY <1>1, <1>3
  <2> HIDE DEF K
  <2> QED BY <2>2, <2>3, <2>4
<1> QED BY <1>2, <1>3

\* The end of what TrimEnd keeps is where the tokens outside C end.
LEMMA TrimEndIs ==
    ASSUME NEW S, NEW s \in Seq(S), NEW C, NEW n \in 0..Len(s),
           n > 0 => s[n] \notin C,
           \A i \in n + 1..Len(s) : s[i] \in C
    PROVE  Url!TrimEnd(s, C) = SubSeq(s, 1, n)
<1>1. PICK k \in 0..Len(s) :
          /\ Url!TrimEnd(s, C) = SubSeq(s, 1, k)
          /\ k > 0 => s[k] \notin C
          /\ \A i \in k + 1..Len(s) : s[i] \in C
  BY TrimEndCut
<1>2. ~(k < n) /\ ~(n < k)
  BY <1>1
<1> QED BY <1>1, <1>2

\* Trimming on both sides keeps a text from its first token that is no blank to
\* its last.
LEMMA TrimCut ==
    ASSUME NEW S, NEW s \in Seq(S)
    PROVE  \/ Trim(s) = <<>> /\ \A i \in 1..Len(s) : s[i] \in Blank
           \/ \E m \in 1..Len(s), n \in 1..Len(s) :
                /\ m =< n /\ Trim(s) = SubSeq(s, m, n)
                /\ s[m] \notin Blank /\ s[n] \notin Blank
                /\ \A i \in 1..Len(s) : i < m \/ i > n => s[i] \in Blank
<1> DEFINE K == {i \in 1..Len(s) : s[i] \notin Blank}
<1>1. Trim(s) = LET first == IF K # {} THEN Min(K) ELSE 0
                    last == IF K # {} THEN Max(K) ELSE 0
                IN  IF first = 0 THEN <<>> ELSE SubSeq(s, first, last)
  BY Zenon DEF Trim, SelectInSeq, SelectLastInSeq
<1>2. CASE K = {}
  <2>1. \A i \in 1..Len(s) : s[i] \in Blank
    BY <1>2
  <2> HIDE DEF K
  <2> QED BY <1>1, <1>2, <2>1
<1>3. CASE K # {}
  <2>1. Max(K) \in K /\ \A i \in K : i =< Max(K)
    <3>1. K \in SUBSET (1..Len(s)) /\ Len(s) \in Nat
      BY LenProperties
    <3> HIDE DEF K
    <3> QED BY <1>3, <3>1, LastPosition
  <2>2. Min(K) \in K /\ \A i \in K : Min(K) =< i
    <3>1. K \in SUBSET Nat
      OBVIOUS
    <3> QED BY <1>3, <3>1, FirstPosition
  <2>3. /\ Min(K) \in 1..Len(s) /\ Max(K) \in 1..Len(s) /\ Min(K) =< Max(K)
        /\ s[Min(K)] \notin Blank /\ s[Max(K)] \notin Blank
    BY <2>1, <2>2
  <2>4. \A i \in 1..Len(s) : i < Min(K) \/ i > Max(K) => s[i] \in Blank
    BY <2>1, <2>2, <2>3
  <2>5. Trim(s) = SubSeq(s, Min(K), Max(K))
    <3>1. Min(K) # 0
      BY <2>3
    <3> HIDE DEF K
    <3> QED BY <1>1, <1>3, <3>1
  <2> HIDE DEF K
  <2> QED BY <2>3, <2>4, <2>5
<1> QED BY <1>2, <1>3

\* So does the Trim of the URLs: the two are one.
LEMMA TrimUrlIsTrim ==
    ASSUME NEW S, NEW s \in Seq(S) PROVE Url!Trim(s) = Trim(s)
<1>1. PICK n \in 0..Len(s) :
          /\ Url!TrimEnd(s, Url!Blank) = SubSeq(s, 1, n)
          /\ n > 0 => s[n] \notin Url!Blank
          /\ \A i \in n + 1..Len(s) : s[i] \in Url!Blank
  BY TrimEndCut
<1> DEFINE kept == SubSeq(s, 1, n)
           K == {i \in 1..Len(kept) : kept[i] \notin Url!Blank}
<1>2. /\ kept \in Seq(S) /\ Len(kept) = n
      /\ \A i \in 1..n : kept[i] = s[i]
  BY <1>1, PartOf
<1>3. Url!Trim(s) = LET first == IF K # {} THEN Min(K) ELSE 0
                    IN  IF first = 0 THEN <<>> ELSE SubSeq(kept, first, Len(kept))
  <2>1. Url!Trim(s) =
          LET all == Url!TrimEnd(s, Url!Blank)
              L == {i \in 1..Len(all) : all[i] \notin Url!Blank}
              first == IF L # {} THEN Min(L) ELSE 0
          IN  IF first = 0 THEN <<>> ELSE SubSeq(all, first, Len(all))
    BY Zenon DEF Url!Trim, Url!SelectInSeq, Url!Min, Min
  <2>2. Url!TrimEnd(s, Url!Blank) = kept
    BY <1>1
  <2> HIDE DEF kept
  <2> QED BY <2>1, <2>2, Zenon
<1>4. Url!Blank = Blank
  BY DEF Url!Blank, Blank
<1>5. CASE K = {}
  <2>1. Url!Trim(s) = <<>>
    <3> HIDE DEF K
    <3> QED BY <1>3, <1>5
  <2>2. \A i \in 1..Len(s) : s[i] \in Blank
    BY <1>1, <1>2, <1>4, <1>5
  <2>3. Trim(s) = <<>>
    BY <2>2, TrimCut
  <2> QED BY <2>1, <2>3
<1>6. CASE K # {}
  <2>1. Min(K) \in K /\ \A i \in K : Min(K) =< i
    <3>1. K \in SUBSET Nat
      BY <1>2
    <3> HIDE DEF K
    <3> QED BY <1>6, <3>1, FirstPosition
  <2>2. /\ Min(K) \in 1..n /\ s[Min(K)] \notin Blank
        /\ \A i \in 1..Len(s) : i < Min(K) => s[i] \in Blank
    <3>1. Min(K) \in 1..n /\ kept[Min(K)] \notin Url!Blank
      BY <1>2, <2>1
    <3>2. ASSUME NEW i \in 1..Len(s), i < Min(K) PROVE s[i] \in Blank
      <4>1. i \in 1..n /\ i \notin K
        <5> HIDE DEF K
        <5> QED BY <2>1, <3>1, <3>2
      <4> QED BY <1>2, <1>4, <4>1
    <3> HIDE DEF K, kept
    <3> QED BY <1>2, <1>4, <3>1, <3>2
  <2>3. Url!Trim(s) = SubSeq(kept, Min(K), n)
    <3> HIDE DEF kept, K
    <3> QED BY <1>2, <1>3, <1>6, <2>2
  <2> HIDE DEF K
  <2>4. SubSeq(kept, Min(K), n) = SubSeq(s, 1 + Min(K) - 1, 1 + n - 1)
    <3>1. 1 \in 1..Len(s) /\ n \in 1..Len(s) /\ Min(K) \in 1..n-1+1 /\ n \in 1..n-1+1
      BY <1>1, <2>2
    <3> QED BY <3>1, SubSeqOfSubSeq
  <2>5. 1 + Min(K) - 1 = Min(K) /\ 1 + n - 1 = n
    BY <2>2
  <2>6. Url!Trim(s) = SubSeq(s, Min(K), n)
    BY <2>3, <2>4, <2>5
  <2>7. Min(K) \in 1..Len(s) /\ n \in 1..Len(s) /\ s[n] \notin Blank
        /\ \A i \in 1..Len(s) : i > n => s[i] \in Blank
    BY <1>1, <1>4, <2>2
  <2>8. \E m \in 1..Len(s), k \in 1..Len(s) :
          /\ Trim(s) = SubSeq(s, m, k)
          /\ s[m] \notin Blank /\ s[k] \notin Blank
          /\ \A i \in 1..Len(s) : i < m \/ i > k => s[i] \in Blank
    <3>1. ~(\A i \in 1..Len(s) : s[i] \in Blank)
      BY <2>7
    <3> QED BY <3>1, TrimCut
  <2>9. PICK m \in 1..Len(s) : \E k \in 1..Len(s) :
          /\ Trim(s) = SubSeq(s, m, k)
          /\ s[m] \notin Blank /\ s[k] \notin Blank
          /\ \A i \in 1..Len(s) : i < m \/ i > k => s[i] \in Blank
    BY <2>8
  <2>10. PICK k \in 1..Len(s) :
          /\ Trim(s) = SubSeq(s, m, k)
          /\ s[m] \notin Blank /\ s[k] \notin Blank
          /\ \A i \in 1..Len(s) : i < m \/ i > k => s[i] \in Blank
    BY <2>9
  <2>11. m = Min(K) /\ k = n
    <3> HIDE <1>1, <1>2, <1>3, <2>6
    <3>1. ~(m < Min(K)) /\ ~(Min(K) < m) /\ ~(k < n) /\ ~(n < k)
      BY <2>2, <2>7, <2>10
    <3> QED BY <2>7, <3>1
  <2> QED BY <2>6, <2>10, <2>11
<1> QED BY <1>5, <1>6

\* A text without blanks at its ends is trimmed.
LEMMA TrimmedIs ==
    ASSUME NEW S, NEW s \in Seq(S),
           s # <<>> => s[1] \notin Blank /\ s[Len(s)] \notin Blank
    PROVE  Trim(s) = s
<1>1. CASE s = <<>>
  <2>1. Len(s) = 0 /\ 1..0 = {}
    BY <1>1
  <2>2. \A m \in 1..Len(s) : FALSE
    BY <2>1
  <2>3. Trim(s) = <<>>
    BY <2>2, TrimCut
  <2> QED BY <1>1, <2>3
<1>2. CASE s # <<>>
  <2>1. Len(s) \in Nat /\ Len(s) > 0
    BY <1>2, EmptySeq
  <2>2. 1 \in 1..Len(s) /\ Len(s) \in 1..Len(s)
    BY <2>1
  <2>3. PICK m \in 1..Len(s) : \E n \in 1..Len(s) :
                /\ m =< n /\ Trim(s) = SubSeq(s, m, n)
                /\ \A i \in 1..Len(s) : i < m \/ i > n => s[i] \in Blank
    BY <1>2, <2>2, TrimCut
  <2>4. PICK n \in 1..Len(s) :
                /\ m =< n /\ Trim(s) = SubSeq(s, m, n)
                /\ \A i \in 1..Len(s) : i < m \/ i > n => s[i] \in Blank
    BY <2>3
  <2>5. m = 1 /\ n = Len(s)
    BY <1>2, <2>1, <2>2, <2>4
  <2> QED BY <2>4, <2>5, SubSeqFull
<1> QED BY <1>1, <1>2

\* Trimming leaves a text, and what it leaves is trimmed.
LEMMA TrimTrimmed ==
    ASSUME NEW S, NEW s \in Seq(S)
    PROVE  Trim(s) \in Seq(S) /\ Trim(Trim(s)) = Trim(s)
<1>1. CASE Trim(s) = <<>>
  <2>1. <<>> \in Seq(S)
    OBVIOUS
  <2> QED BY <1>1, <2>1, TrimmedIs
<1>2. CASE Trim(s) # <<>>
  <2>1. PICK m \in 1..Len(s) : \E n \in 1..Len(s) :
                /\ m =< n /\ Trim(s) = SubSeq(s, m, n)
                /\ s[m] \notin Blank /\ s[n] \notin Blank
    BY <1>2, TrimCut
  <2>2. PICK n \in 1..Len(s) :
                /\ m =< n /\ Trim(s) = SubSeq(s, m, n)
                /\ s[m] \notin Blank /\ s[n] \notin Blank
    BY <2>1
  <2> DEFINE t == SubSeq(s, m, n)
  <2>3. /\ t \in Seq(S) /\ Len(t) = n - m + 1
        /\ \A i \in 1..n - m + 1 : t[i] = s[m + i - 1]
    BY <2>2, PartOf
  <2> HIDE DEF t
  <2>4. t[1] = s[m] /\ t[Len(t)] = s[n]
    <3>1. 1 \in 1..n - m + 1 /\ n - m + 1 \in 1..n - m + 1
      BY <2>2
    <3>2. m + 1 - 1 = m /\ m + (n - m + 1) - 1 = n
      OBVIOUS
    <3> QED BY <2>3, <3>1, <3>2
  <2>5. Trim(t) = t
    BY <2>2, <2>3, <2>4, TrimmedIs
  <2> QED BY <2>2, <2>3, <2>5 DEF t
<1> QED BY <1>1, <1>2

-----------------------------------------------------------------------------
(* Texts.                                                                  *)

\* The tokens of a URL that a suffix is put on.
Tokens(s) == Range(s) \cup UNION {Range(Url!Suffix[api]) : api \in Url!Api}

\* A sequence of any tokens is a text.
LEMMA TextIs ==
    ASSUME NEW S, NEW s \in Seq(S) PROVE IsText(s)
BY SeqOfRange DEF IsText

\* A text is a sequence of its tokens, and each suffix one of tokens too.
LEMMA TokensOf ==
    ASSUME NEW s, IsText(s)
    PROVE  /\ s \in Seq(Tokens(s))
           /\ \A api \in Url!Api : Url!Suffix[api] \in Seq(Tokens(s))
<1>1. s \in Seq(Tokens(s))
  <2>1. s \in Seq(Range(s)) /\ Range(s) \subseteq Tokens(s)
    BY DEF IsText, Tokens
  <2> QED BY <2>1, SeqMonotonic
<1>2. ASSUME NEW api \in Url!Api PROVE Url!Suffix[api] \in Seq(Tokens(s))
  <2>1. \E S : Url!Suffix[api] \in Seq(S)
    <3>1. CASE api = "chat"
      <4>1. <<"/", "chat", "/", "completions">> \in Seq({"/", "chat", "completions"})
        OBVIOUS
      <4>2. Url!Suffix[api] = <<"/", "chat", "/", "completions">>
        BY <3>1 DEF Url!Suffix
      <4> QED BY <4>1, <4>2
    <3>2. CASE api = "responses"
      <4>1. <<"/", "responses">> \in Seq({"/", "responses"})
        OBVIOUS
      <4>2. Url!Suffix[api] = <<"/", "responses">>
        BY <3>2 DEF Url!Suffix
      <4> QED BY <4>1, <4>2
    <3>3. CASE api = "messages"
      <4>1. <<"/", "messages">> \in Seq({"/", "messages"})
        OBVIOUS
      <4>2. Url!Suffix[api] = <<"/", "messages">>
        BY <3>3 DEF Url!Suffix
      <4> QED BY <4>1, <4>2
    <3> QED BY <3>1, <3>2, <3>3 DEF Url!Api
  <2>2. Url!Suffix[api] \in Seq(Range(Url!Suffix[api]))
    BY <2>1, SeqOfRange
  <2>3. Range(Url!Suffix[api]) \subseteq Tokens(s)
    BY DEF Tokens
  <2> QED BY <2>2, <2>3, SeqMonotonic
<1> QED BY <1>1, <1>2

\* TrimEnd leaves a text.
LEMMA TrimEndText ==
    ASSUME NEW S, NEW s \in Seq(S), NEW C PROVE Url!TrimEnd(s, C) \in Seq(S)
<1>1. PICK n \in 0..Len(s) : Url!TrimEnd(s, C) = SubSeq(s, 1, n)
  BY TrimEndCut
<1> QED BY <1>1, PartOf

\* The mode chips make texts of texts.
LEMMA RewriteText ==
    ASSUME NEW s, IsText(s), NEW api \in Url!Api
    PROVE  IsText(Url!RewriteSuffix(s, api))
<1> DEFINE S == Tokens(s)
           u == Url!TrimEnd(Url!Trim(s), Url!Slash)
           short == SubSeq(u, 1, Len(u) - Len(Url!Suffix[Url!ApiOf(u)]))
           base == IF Url!ApiOf(u) = Url!NoApi THEN u ELSE short
<1>1. s \in Seq(S) /\ \A a \in Url!Api : Url!Suffix[a] \in Seq(S)
  BY TokensOf
<1> HIDE DEF S
<1>2. u \in Seq(S)
  BY <1>1, TrimUrlIsTrim, TrimTrimmed, TrimEndText
<1>3. Url!ApiOf(u) # Url!NoApi => Url!ApiOf(u) \in Url!Api
  BY DEF Url!ApiOf
<1> HIDE DEF u
<1>4. ASSUME Url!ApiOf(u) # Url!NoApi PROVE short \in Seq(S)
  <2>1. Len(Url!Suffix[Url!ApiOf(u)]) \in Nat
    BY <1>1, <1>3, <1>4, LenProperties
  <2>2. Len(u) \in Nat
    BY <1>2, LenProperties
  <2> QED BY <1>2, <2>1, <2>2, PartOf
<1>5. base \in Seq(S)
  BY <1>2, <1>4
<1>6. Url!RewriteSuffix(s, api) = Url!TrimEnd(base, Url!Slash) \o Url!Suffix[api]
  BY Zenon DEF Url!RewriteSuffix, u
<1> HIDE DEF base
<1>7. Url!TrimEnd(base, Url!Slash) \o Url!Suffix[api] \in Seq(S)
  BY <1>1, <1>5, TrimEndText, ConcatProperties
<1> QED BY <1>6, <1>7, TextIs

\* What the user enters is a text.
LEMMA EnteredText ==
    ASSUME NEW text \in TypedUrl \cup TypedAddr PROVE IsText(Trim(text))
<1>1. text \in Seq(Range(text))
  BY ContentAssumption DEF IsText
<1> QED BY <1>1, TrimTrimmed, TextIs

-----------------------------------------------------------------------------
(* Listen addresses.                                                       *)

\* A word, a colon and a word are a host and a port.
LEMMA HostPort ==
    ASSUME NEW h, NEW p, h \notin Special, p \notin Special
    PROVE  /\ ListenHost(<<h, ":", p>>) = <<h>> /\ ListenPort(<<h, ":", p>>) = <<p>>
           /\ Trim(<<h, ":", p>>) = <<h, ":", p>> /\ ~Bracketed(<<h, ":", p>>)
<1> DEFINE a == <<h, ":", p>>
           T == {h, ":", p}
           C == {i \in 1..Len(a) : a[i] = ":"}
<1>1. a \in Seq(T) /\ Len(a) = 3 /\ a[1] = h /\ a[2] = ":" /\ a[3] = p
  OBVIOUS
<1>2. h \notin Blank /\ p \notin Blank /\ h # ":" /\ p # ":" /\ h # "["
  BY DEF Special, Blank
<1>3. ASSUME NEW x, NEW s \in Seq(T), Len(s) = 1, s[1] = x PROVE s = <<x>>
  BY <1>3
<1> HIDE DEF a, T
<1>4. SubSeq(a, 1, 1) = <<h>> /\ SubSeq(a, 3, 3) = <<p>>
  <2>1. /\ SubSeq(a, 1, 1) \in Seq(T) /\ Len(SubSeq(a, 1, 1)) = 1
        /\ SubSeq(a, 3, 3) \in Seq(T) /\ Len(SubSeq(a, 3, 3)) = 1
    BY <1>1, PartOf
  <2>2. SubSeq(a, 1, 1)[1] = h /\ SubSeq(a, 3, 3)[1] = p
    BY <1>1, PartOf
  <2>3. SubSeq(a, 1, 1) = <<h>>
    BY <2>1, <2>2, <1>3
  <2>4. SubSeq(a, 3, 3) = <<p>>
    BY <2>1, <2>2, <1>3
  <2> QED BY <2>3, <2>4
<1>5. C = {2}
  <2>1. \A i \in 1..3 : a[i] = ":" <=> i = 2
    <3>1. \A i \in 1..3 : i = 1 \/ i = 2 \/ i = 3
      OBVIOUS
    <3> QED BY <1>1, <1>2, <3>1
  <2> QED BY <1>1, <2>1
<1>6. LastColon(a) = 2
  <2>1. Max({2}) = 2
    <3>1. {2} \in SUBSET Nat /\ 2 \in {2} /\ \A y \in {2} : 2 >= y
      OBVIOUS
    <3> QED BY <3>1, MaxIs
  <2>2. LastColon(a) = IF C # {} THEN Max(C) ELSE 0
    BY Zenon DEF LastColon, SelectLastInSeq
  <2> QED BY <1>5, <2>1, <2>2
<1>7. Trim(a) = a
  BY <1>1, <1>2, TrimmedIs
<1>8. ~Bracketed(a)
  BY <1>1, <1>2 DEF Bracketed
<1>9. ListenHost(a) = <<h>> /\ ListenPort(a) = <<p>>
  <2>1. LastColon(a) # 0 /\ LastColon(a) - 1 = 1 /\ LastColon(a) + 1 = 3 /\ Len(a) = 3
    BY <1>1, <1>6
  <2>2. /\ ListenHost(a) = SubSeq(a, 1, LastColon(a) - 1)
        /\ ListenPort(a) = SubSeq(a, LastColon(a) + 1, Len(a))
    BY <1>7, <1>8, <2>1, Zenon DEF ListenHost, ListenPort
  <2> QED BY <1>4, <2>1, <2>2
<1> QED BY <1>7, <1>8, <1>9 DEF a

\* An address of this machine only, as the operating system reads it.
OfThisMachine(addr) ==
    \/ \E w \in Loopback4 : ListenHost(addr) = <<w>>
    \/ Bracketed(Trim(addr)) /\ ListenHost(addr) \in Loopback6

\* The default address is one of this machine only.
LEMMA DefaultIsLocal == OfThisMachine(DefaultAddr)
<1>1. "127.0.0.1" \in Loopback4 /\ "127.0.0.1" \notin Special /\ "8080" \notin Special
  BY WordAssumption
<1>2. ListenHost(DefaultAddr) = <<"127.0.0.1">>
  BY <1>1, HostPort DEF DefaultAddr
<1> QED BY <1>1, <1>2 DEF OfThisMachine

\* The default address can be bound.
LEMMA DefaultBinds == Bindable(DefaultAddr)
<1>1. /\ "127.0.0.1" \notin Special /\ "8080" \notin Special
      /\ "127.0.0.1" \in ResolvedName /\ "8080" \in PortWord
  BY WordAssumption, ResolveAssumption
<1>2. /\ ListenHost(DefaultAddr) = <<"127.0.0.1">> /\ ListenPort(DefaultAddr) = <<"8080">>
      /\ Trim(DefaultAddr) = DefaultAddr /\ ~Bracketed(DefaultAddr)
  BY <1>1, HostPort DEF DefaultAddr
<1> QED BY <1>1, <1>2 DEF Bindable, PortReads, IsPort, Resolves

\* A valid address that passes for loopback is one: only in brackets may a host
\* hold colons.
LEMMA ValidLoopback ==
    ASSUME NEW addr, ValidateListenAddr(addr), IsLoopback(addr)
    PROVE  OfThisMachine(addr)
<1>1. CASE ListenHost(addr) \in Loopback6 /\ ~Bracketed(Trim(addr))
  <2>1. ":" \in Range(ListenHost(addr))
    BY <1>1, WordAssumption
  <2>2. Range(ListenHost(addr)) \subseteq HostWord
    BY <1>1 DEF ValidateListenAddr
  <2>3. ":" \notin HostWord
    BY WordAssumption DEF Special
  <2> QED BY <2>1, <2>2, <2>3
<1> QED BY <1>1 DEF OfThisMachine, IsLoopback

\* What a local agent is given stays on this machine, and at the port.
LEMMA LocalIsLocal ==
    ASSUME NEW addr, IsText(addr) PROVE LocalStaysLocal(addr)
<1> SUFFICES ASSUME ValidateListenAddr(addr)
             PROVE  /\ ValidateListenAddr(LocalAddr(addr))
                    /\ IsLoopback(LocalAddr(addr))
                    /\ ListenPort(LocalAddr(addr)) = ListenPort(addr)
  BY DEF LocalStaysLocal
<1> DEFINE a == Trim(addr)
<1>1. Trim(a) = a
  BY TrimTrimmed DEF IsText
<1>2. ListenHost(a) = ListenHost(addr) /\ ListenPort(a) = ListenPort(addr)
  BY <1>1 DEF ListenHost, ListenPort
<1>3. ListenPort(a) # NoPort
  BY <1>2 DEF ValidateListenAddr
<1> HIDE DEF a
<1>4. CASE IsLoopback(a)
  <2>1. LocalAddr(addr) = a
    BY <1>4 DEF LocalAddr, a
  <2>2. ValidateListenAddr(a)
    BY <1>1, <1>2 DEF ValidateListenAddr, a
  <2> QED BY <1>2, <1>4, <2>1, <2>2
<1>5. CASE ~IsLoopback(a)
  <2>1. PICK w \in PortWord : ListenPort(a) = <<w>>
    BY <1>2 DEF ValidateListenAddr, IsPort
  <2> DEFINE local == <<"127.0.0.1", ":", w>>
  <2>2. LocalAddr(addr) = local
    <3>1. LocalAddr(addr) = <<"127.0.0.1", ":">> \o <<w>>
      <4>1. LocalAddr(addr) = <<"127.0.0.1", ":">> \o
              (IF ListenPort(a) = NoPort THEN <<"8080">> ELSE ListenPort(a))
        BY <1>5, Zenon DEF LocalAddr, a
      <4> QED BY <1>3, <2>1, <4>1
    <3>2. <<"127.0.0.1", ":">> \o <<w>> = local
      <4> DEFINE S == {"127.0.0.1", ":", w}
                 x == <<"127.0.0.1", ":">>
                 y == <<w>>
      <4>1. /\ x \in Seq(S) /\ Len(x) = 2 /\ x[1] = "127.0.0.1" /\ x[2] = ":"
            /\ y \in Seq(S) /\ Len(y) = 1 /\ y[1] = w
            /\ local \in Seq(S) /\ Len(local) = 3
            /\ local[1] = "127.0.0.1" /\ local[2] = ":" /\ local[3] = w
        OBVIOUS
      <4> HIDE DEF S, x, y, local
      <4>2. /\ x \o y \in Seq(S) /\ Len(x \o y) = 3
            /\ (x \o y)[1] = x[1] /\ (x \o y)[2] = x[2] /\ (x \o y)[3] = y[1]
        BY <4>1, ConcatProperties
      <4>3. \A i \in 1..3 : i = 1 \/ i = 2 \/ i = 3
        OBVIOUS
      <4>4. \A i \in 1..3 : (x \o y)[i] = local[i]
        BY <4>1, <4>2, <4>3
      <4> QED BY <4>1, <4>2, <4>4, SeqEqual DEF x, y
    <3> QED BY <3>1, <3>2
  <2>3. /\ "127.0.0.1" \notin Special /\ w \notin Special
        /\ "127.0.0.1" \in HostWord /\ "127.0.0.1" \in Loopback4
    BY WordAssumption
  <2>4. /\ ListenHost(local) = <<"127.0.0.1">> /\ ListenPort(local) = <<w>>
        /\ Trim(local) = local /\ ~Bracketed(local)
    BY <2>3, HostPort
  <2> HIDE DEF local
  <2>5. Range(<<"127.0.0.1">>) \subseteq HostWord
    BY <2>3 DEF Range
  <2>6. ListenHost(local) # NoHost /\ ListenHost(local) # <<>>
    BY <2>4 DEF NoHost
  <2>7. ListenPort(local) # NoPort /\ IsPort(ListenPort(local), PortWord)
    BY <1>3, <2>1, <2>4 DEF IsPort
  <2>8. ValidateListenAddr(local)
    BY <2>4, <2>5, <2>6, <2>7 DEF ValidateListenAddr
  <2>9. IsLoopback(local)
    BY <2>3, <2>4 DEF IsLoopback
  <2> QED BY <1>2, <2>1, <2>2, <2>4, <2>8, <2>9
<1> QED BY <1>4, <1>5

-----------------------------------------------------------------------------
(* What a valid endpoint URL is made of.                                   *)

\* A part of a part is a part.
LEMMA PartOfPart ==
    ASSUME NEW S, NEW s \in Seq(S), NEW m \in Nat, NEW n \in Int, m >= 1, n =< Len(s),
           NEW i \in Nat, NEW j \in Int, i >= 1, j =< n - m + 1
    PROVE  SubSeq(SubSeq(s, m, n), i, j) = SubSeq(s, m + i - 1, m + j - 1)
<1>1. CASE j < i
  <2>1. SubSeq(SubSeq(s, m, n), i, j) = <<>>
    BY <1>1, SubSeqEmpty
  <2>2. m + i - 1 \in Int /\ m + j - 1 \in Int /\ m + j - 1 < m + i - 1
    BY <1>1
  <2>3. SubSeq(s, m + i - 1, m + j - 1) = <<>>
    BY <2>2, SubSeqEmpty
  <2> QED BY <2>1, <2>3
<1>2. CASE i =< j
  <2> DEFINE p == SubSeq(s, m, n)
             x == SubSeq(p, i, j)
             y == SubSeq(s, m + i - 1, m + j - 1)
  <2>1. m =< n /\ Len(s) \in Nat
    BY <1>2, LenProperties
  <2>2. /\ p \in Seq(S) /\ Len(p) = n - m + 1
        /\ \A k \in 1..n - m + 1 : p[k] = s[m + k - 1]
    BY <2>1, PartOf
  <2> HIDE DEF p
  <2>3. /\ x \in Seq(S) /\ Len(x) = j - i + 1
        /\ \A k \in 1..j - i + 1 : x[k] = p[i + k - 1]
    BY <1>2, <2>2, PartOf
  <2>4. /\ m + i - 1 \in Nat /\ m + i - 1 >= 1 /\ m + j - 1 =< Len(s)
        /\ (m + j - 1) - (m + i - 1) + 1 = j - i + 1
        /\ m + i - 1 =< m + j - 1 /\ m + j - 1 \in Int
    BY <1>2, <2>1
  <2>5. /\ y \in Seq(S) /\ Len(y) = j - i + 1
        /\ \A k \in 1..j - i + 1 : y[k] = s[(m + i - 1) + k - 1]
    BY <2>4, PartOf
  <2> HIDE DEF x, y
  <2>6. ASSUME NEW k \in 1..j - i + 1 PROVE x[k] = y[k]
    <3>1. /\ i + k - 1 \in 1..n - m + 1
          /\ m + (i + k - 1) - 1 = (m + i - 1) + k - 1
      BY <1>2
    <3> QED BY <2>2, <2>3, <2>5, <3>1
  <2>7. x = y
    BY <2>3, <2>5, <2>6, SeqEqual
  <2> QED BY <2>7 DEF x, y, p
<1> QED BY <1>1, <1>2

\* Every suffix begins with a slash and ends in a word, each in its own.
LEMMA SuffixWords ==
    ASSUME NEW a \in Url!Api
    PROVE  LET x == Url!Suffix[a] IN
           /\ Len(x) \in Nat /\ Len(x) >= 2 /\ x[1] = "/"
           /\ x[Len(x)] \notin Url!Slash /\ x[Len(x)] \notin Blank
           /\ \A b \in Url!Api :
                Url!Suffix[b][Len(Url!Suffix[b])] = x[Len(x)] => b = a
<1> DEFINE End(b) == Url!Suffix[b][Len(Url!Suffix[b])]
<1>1. ASSUME NEW b \in Url!Api
      PROVE  /\ Len(Url!Suffix[b]) \in Nat /\ Len(Url!Suffix[b]) >= 2
             /\ Url!Suffix[b][1] = "/"
             /\ b = "chat" => End(b) = "completions"
             /\ b = "responses" => End(b) = "responses"
             /\ b = "messages" => End(b) = "messages"
  <2>1. CASE b = "chat"
    BY <2>1 DEF Url!Suffix
  <2>2. CASE b = "responses"
    BY <2>2 DEF Url!Suffix
  <2>3. CASE b = "messages"
    BY <2>3 DEF Url!Suffix
  <2> QED BY <2>1, <2>2, <2>3 DEF Url!Api
<1> HIDE DEF End
<1>2. End(a) \notin Url!Slash /\ End(a) \notin Blank
  BY <1>1 DEF Url!Api, Url!Slash, Blank
<1>3. \A b \in Url!Api : End(b) = End(a) => b = a
  BY <1>1 DEF Url!Api
<1> QED BY <1>1, <1>2, <1>3 DEF End

\* The tokens of s end in those of the suffix of a.
Ends(s, a) ==
    LET x == Url!Suffix[a]
    IN  Len(x) =< Len(s) /\ \A i \in 1..Len(x) : s[Len(s) - Len(x) + i] = x[i]

\* The tokens of a reversed sequence.
LEMMA ReverseIs ==
    ASSUME NEW S, NEW s \in Seq(S)
    PROVE  /\ Url!Reverse(s) \in Seq(S) /\ Len(Url!Reverse(s)) = Len(s)
           /\ \A i \in 1..Len(s) : Url!Reverse(s)[i] = s[Len(s) - i + 1]
<1>1. Len(s) \in Nat /\ s \in [1..Len(s) -> S]
  BY LenProperties
<1>2. \A i \in 1..Len(s) : Len(s) - i + 1 \in 1..Len(s)
  BY <1>1
<1>3. Url!Reverse(s) \in [1..Len(s) -> S]
  BY <1>1, <1>2 DEF Url!Reverse
<1>4. Url!Reverse(s) \in Seq(S)
  BY <1>1, <1>3, SeqDef
<1>5. Len(Url!Reverse(s)) = Len(s)
  <2>1. DOMAIN Url!Reverse(s) = 1..Len(s)
    BY <1>3
  <2>2. DOMAIN Url!Reverse(s) = 1..Len(Url!Reverse(s)) /\ Len(Url!Reverse(s)) \in Nat
    BY <1>4, LenProperties
  <2> HIDE DEF Url!Reverse
  <2> QED BY <1>1, <2>1, <2>2
<1>6. \A i \in 1..Len(s) : Url!Reverse(s)[i] = s[Len(s) - i + 1]
  BY DEF Url!Reverse
<1> QED BY <1>4, <1>5, <1>6

\* IsSuffix compares just those tokens.
LEMMA EndsIsSuffix ==
    ASSUME NEW S, NEW s \in Seq(S), NEW a \in Url!Api, Url!Suffix[a] \in Seq(S)
    PROVE  Url!IsSuffix(Url!Suffix[a], s) <=> Ends(s, a)
<1> DEFINE x == Url!Suffix[a]
           rx == Url!Reverse(x)
           rs == Url!Reverse(s)
           p == SubSeq(rx, 1, Len(x))
           q == SubSeq(rs, 1, Len(x))
<1>1. Len(x) \in Nat /\ Len(s) \in Nat /\ x \in Seq(S)
  BY LenProperties
<1> HIDE DEF x
<1>2. /\ rx \in Seq(S) /\ Len(rx) = Len(x)
      /\ \A i \in 1..Len(x) : rx[i] = x[Len(x) - i + 1]
      /\ rs \in Seq(S) /\ Len(rs) = Len(s)
      /\ \A i \in 1..Len(s) : rs[i] = s[Len(s) - i + 1]
  BY <1>1, ReverseIs
<1> HIDE DEF rx, rs
<1>3. Url!IsSuffix(x, s) <=> Len(x) =< Len(s) /\ p = q
  BY <1>2 DEF Url!IsSuffix, Url!IsPrefix, rx, rs
<1>4. ASSUME Len(x) =< Len(s) PROVE p = q <=> \A i \in 1..Len(x) : rx[i] = rs[i]
  <2>1. /\ p \in Seq(S) /\ Len(p) = Len(x) /\ \A i \in 1..Len(x) : p[i] = rx[i]
        /\ q \in Seq(S) /\ Len(q) = Len(x) /\ \A i \in 1..Len(x) : q[i] = rs[i]
    <3>1. /\ 1 \in Nat /\ Len(x) \in Int /\ Len(x) =< Len(rx) /\ Len(x) =< Len(rs)
          /\ Len(x) - 1 + 1 = Len(x)
      BY <1>1, <1>2, <1>4
    <3>2. /\ p \in Seq(S) /\ Len(p) = IF 1 =< Len(x) THEN Len(x) - 1 + 1 ELSE 0
          /\ \A i \in 1..Len(x) - 1 + 1 : p[i] = rx[1 + i - 1]
      BY <1>2, <3>1, PartOf
    <3>3. /\ q \in Seq(S) /\ Len(q) = IF 1 =< Len(x) THEN Len(x) - 1 + 1 ELSE 0
          /\ \A i \in 1..Len(x) - 1 + 1 : q[i] = rs[1 + i - 1]
      BY <1>2, <3>1, PartOf
    <3>4. \A i \in 1..Len(x) : 1 + i - 1 = i
      OBVIOUS
    <3> HIDE DEF p, q
    <3> QED BY <1>1, <3>1, <3>2, <3>3, <3>4
  <2> HIDE DEF p, q
  <2> QED BY <2>1, SeqEqual
<1>5. ASSUME Len(x) =< Len(s)
      PROVE  (\A i \in 1..Len(x) : rx[i] = rs[i])
               <=> \A i \in 1..Len(x) : s[Len(s) - Len(x) + i] = x[i]
  <2>1. ASSUME \A i \in 1..Len(x) : rx[i] = rs[i], NEW i \in 1..Len(x)
        PROVE  s[Len(s) - Len(x) + i] = x[i]
    <3>1. /\ Len(x) - i + 1 \in 1..Len(x) /\ Len(x) - i + 1 \in 1..Len(s)
          /\ Len(x) - (Len(x) - i + 1) + 1 = i
          /\ Len(s) - (Len(x) - i + 1) + 1 = Len(s) - Len(x) + i
      BY <1>1, <1>5
    <3> QED BY <1>2, <2>1, <3>1
  <2>2. ASSUME \A i \in 1..Len(x) : s[Len(s) - Len(x) + i] = x[i], NEW i \in 1..Len(x)
        PROVE  rx[i] = rs[i]
    <3>1. /\ Len(x) - i + 1 \in 1..Len(x) /\ i \in 1..Len(s)
          /\ Len(s) - Len(x) + (Len(x) - i + 1) = Len(s) - i + 1
      BY <1>1, <1>5
    <3> QED BY <1>2, <2>2, <3>1
  <2> QED BY <2>1, <2>2
<1> QED BY <1>3, <1>4, <1>5 DEF Ends, x

\* The API of a URL is the one whose suffix it ends in, and there is no other.
LEMMA ApiOfIs ==
    ASSUME NEW S, NEW s \in Seq(S), \A a \in Url!Api : Url!Suffix[a] \in Seq(S)
    PROVE  /\ \A a \in Url!Api : Ends(s, a) => Url!ApiOf(s) = a
           /\ Url!ApiOf(s) # Url!NoApi =>
                Url!ApiOf(s) \in Url!Api /\ Ends(s, Url!ApiOf(s))
<1>1. ASSUME NEW a \in Url!Api, NEW b \in Url!Api, Ends(s, a), Ends(s, b)
      PROVE  a = b
  <2>1. /\ Len(Url!Suffix[a]) \in 1..Len(Url!Suffix[a]) /\ Len(s) \in Nat
        /\ Len(Url!Suffix[b]) \in 1..Len(Url!Suffix[b])
        /\ Len(s) - Len(Url!Suffix[a]) + Len(Url!Suffix[a]) = Len(s)
        /\ Len(s) - Len(Url!Suffix[b]) + Len(Url!Suffix[b]) = Len(s)
    BY SuffixWords, LenProperties
  <2>2. /\ s[Len(s)] = Url!Suffix[a][Len(Url!Suffix[a])]
        /\ s[Len(s)] = Url!Suffix[b][Len(Url!Suffix[b])]
    BY <1>1, <2>1 DEF Ends
  <2> QED BY <2>2, SuffixWords
<1>2. \A a \in Url!Api : Url!IsSuffix(Url!Suffix[a], s) <=> Ends(s, a)
  BY EndsIsSuffix
<1> QED BY <1>1, <1>2 DEF Url!ApiOf

\* A URL whose scheme, slashes and host take the first 3 + n tokens.
Origin(b, n) ==
    /\ n \in Nat /\ n >= 1 /\ 3 + n =< Len(b)
    /\ b[1] \in Url!Scheme /\ b[2] = "/" /\ b[3] = "/"
    /\ \A i \in 4..3 + n : b[i] \notin Url!Delimiter /\ b[i] # "@"
    /\ 3 + n < Len(b) => b[4 + n] \in Url!Delimiter

\* The authority ends at the first delimiter.
LEMMA AuthorityCut ==
    ASSUME NEW S, NEW b \in Seq(S), Len(b) >= 3
    PROVE  \E n \in 0..Len(b) - 3 :
             /\ Url!AuthorityLength(Url!AfterScheme(b)) = n
             /\ \A i \in 4..3 + n : b[i] \notin Url!Delimiter
             /\ 3 + n < Len(b) => b[4 + n] \in Url!Delimiter
<1> DEFINE r == SubSeq(b, 4, Len(b))
           K == {i \in 1..Len(r) : r[i] \in Url!Delimiter}
<1>1. Len(b) \in Nat
  BY LenProperties
<1>2. /\ r \in Seq(S) /\ Len(r) = Len(b) - 3
      /\ \A i \in 1..Len(b) - 3 : r[i] = b[3 + i]
  <2>1. /\ r \in Seq(S) /\ Len(r) = IF 4 =< Len(b) THEN Len(b) - 4 + 1 ELSE 0
        /\ \A i \in 1..Len(b) - 4 + 1 : r[i] = b[4 + i - 1]
    BY <1>1, PartOf
  <2> HIDE DEF r
  <2>2. Len(r) = Len(b) - 3
    <3>1. CASE 4 =< Len(b)
      BY <1>1, <2>1, <3>1
    <3>2. CASE ~(4 =< Len(b))
      <4>1. Len(b) = 3
        <5> HIDE DEF K
        <5>1. Len(b) \in Nat /\ Len(b) >= 3
          BY <1>1
        <5>2. \A k \in Nat : k >= 3 /\ ~(4 =< k) => k = 3
          OBVIOUS
        <5> QED BY <5>1, <5>2, <3>2
      <4> QED BY <2>1, <3>2, <4>1
    <3> QED BY <3>1, <3>2
  <2>3. ASSUME NEW i \in 1..Len(b) - 3 PROVE r[i] = b[3 + i]
    <3>1. 4 + i - 1 = 3 + i /\ i \in 1..Len(b) - 4 + 1
      BY <1>1
    <3>2. r[i] = b[4 + i - 1]
      BY <2>1, <3>1
    <3> QED BY <3>1, <3>2
  <2> QED BY <2>1, <2>2, <2>3
<1>3. Url!AuthorityLength(Url!AfterScheme(b)) =
        LET first == IF K # {} THEN Min(K) ELSE 0
        IN  IF first = 0 THEN Len(r) ELSE first - 1
  BY Zenon DEF Url!AuthorityLength, Url!AfterScheme, Url!SelectInSeq, Url!Min, Min
<1>4. CASE K = {}
  <2>1. Url!AuthorityLength(Url!AfterScheme(b)) = Len(b) - 3
    <3> HIDE DEF K, r
    <3> QED BY <1>2, <1>3, <1>4
  <2>2. ASSUME NEW i \in 4..3 + (Len(b) - 3) PROVE b[i] \notin Url!Delimiter
    <3>1. i - 3 \in 1..Len(b) - 3 /\ 3 + (i - 3) = i
      BY <1>1
    <3>2. r[i - 3] \notin Url!Delimiter
      BY <1>2, <1>4, <3>1
    <3> HIDE DEF K, r
    <3> QED BY <1>2, <3>1, <3>2
  <2>3. Len(b) - 3 \in 0..Len(b) - 3 /\ ~(3 + (Len(b) - 3) < Len(b))
    BY <1>1
  <2> HIDE DEF K, r
  <2> QED BY <2>1, <2>2, <2>3
<1>5. CASE K # {}
  <2>1. Min(K) \in K /\ \A i \in K : Min(K) =< i
    <3>1. K \in SUBSET Nat
      BY <1>1, <1>2
    <3> HIDE DEF K
    <3> QED BY <1>5, <3>1, FirstPosition
  <2>2. Min(K) \in 1..Len(b) - 3 /\ r[Min(K)] \in Url!Delimiter
    BY <1>2, <2>1
  <2>3. Url!AuthorityLength(Url!AfterScheme(b)) = Min(K) - 1
    <3> HIDE DEF K, r
    <3>1. Min(K) # 0
      BY <2>2
    <3> QED BY <1>3, <1>5, <3>1
  <2>4. \A i \in 1..Len(b) - 3 : r[i] \in Url!Delimiter => i \in K
    BY <1>2
  <2> DEFINE m == Min(K)
  <2> HIDE DEF K, r, m
  <2>5. /\ m \in 1..Len(b) - 3 /\ b[3 + m] \in Url!Delimiter
        /\ \A i \in 1..Len(b) - 3 : r[i] \in Url!Delimiter => m =< i
    BY <1>2, <2>1, <2>2, <2>4 DEF m
  <2>6. ASSUME NEW i \in 4..3 + (m - 1) PROVE b[i] \notin Url!Delimiter
    <3>1. i - 3 \in 1..Len(b) - 3 /\ 3 + (i - 3) = i /\ ~(m =< i - 3)
      BY <1>1, <2>5
    <3> QED BY <1>2, <2>5, <3>1
  <2>7. m - 1 \in 0..Len(b) - 3 /\ 4 + (m - 1) = 3 + m
    BY <1>1, <2>5
  <2> QED BY <2>3, <2>5, <2>6, <2>7 DEF m
<1> QED BY <1>4, <1>5

\* The authority of such a URL is its host.
LEMMA OriginAuthority ==
    ASSUME NEW S, NEW b \in Seq(S), NEW n, Origin(b, n)
    PROVE  /\ Url!HasScheme(b, Url!Scheme)
           /\ Url!AuthorityLength(Url!AfterScheme(b)) = n
           /\ Url!Authority(Url!AfterScheme(b)) = SubSeq(b, 4, 3 + n)
           /\ Url!Authority(Url!AfterScheme(b)) # <<>>
           /\ ~Url!Contains(Url!Authority(Url!AfterScheme(b)), "@")
<1> DEFINE r == Url!AfterScheme(b)
<1>1. n \in Nat /\ n >= 1 /\ Len(b) \in Nat /\ 3 + n =< Len(b)
  BY LenProperties DEF Origin
<1>2. Url!HasScheme(b, Url!Scheme)
  BY <1>1 DEF Origin, Url!HasScheme
<1>3. PICK k \in 0..Len(b) - 3 :
        /\ Url!AuthorityLength(r) = k
        /\ \A i \in 4..3 + k : b[i] \notin Url!Delimiter
        /\ 3 + k < Len(b) => b[4 + k] \in Url!Delimiter
  BY <1>1, AuthorityCut
<1>4. k = n
  <2>1. CASE k < n
    <3>1. 4 + k \in 4..3 + n /\ 3 + k < Len(b)
      BY <1>1, <2>1
    <3> QED BY <1>3, <3>1 DEF Origin
  <2>2. CASE n < k
    <3>1. 4 + n \in 4..3 + k /\ 3 + n < Len(b)
      BY <1>1, <1>3, <2>2
    <3> QED BY <1>3, <3>1 DEF Origin
  <2> QED BY <1>1, <2>1, <2>2
<1>5. Url!Authority(r) = SubSeq(b, 4, 3 + n)
  <2>1. 4 \in Nat /\ 1 \in Nat /\ n =< Len(b) - 4 + 1 /\ 4 + 1 - 1 = 4 /\ 4 + n - 1 = 3 + n
    BY <1>1
  <2>2. SubSeq(SubSeq(b, 4, Len(b)), 1, n) = SubSeq(b, 4 + 1 - 1, 4 + n - 1)
    BY <1>1, <2>1, PartOfPart
  <2> QED BY <1>3, <1>4, <2>1, <2>2 DEF Url!Authority, Url!AfterScheme
<1>6. /\ Len(SubSeq(b, 4, 3 + n)) = n
      /\ \A i \in 1..n : SubSeq(b, 4, 3 + n)[i] = b[3 + i]
  <2>1. 4 =< 3 + n /\ (3 + n) - 4 + 1 = n /\ \A i \in 1..n : 4 + i - 1 = 3 + i
    BY <1>1
  <2> QED BY <1>1, <2>1, PartOf
<1>7. \A i \in 1..n : b[3 + i] # "@"
  <2>1. \A i \in 1..n : 3 + i \in 4..3 + n
    BY <1>1
  <2> QED BY <2>1 DEF Origin
<1>8. SubSeq(b, 4, 3 + n) # <<>>
  <2>1. Len(<<>>) = 0
    OBVIOUS
  <2> QED BY <1>1, <1>6, <2>1
<1> HIDE DEF r
<1> QED BY <1>2, <1>3, <1>4, <1>5, <1>6, <1>7, <1>8 DEF Url!Contains, r

\* What passes the checks of the scheme and the host is such a URL.
LEMMA AuthorityOrigin ==
    ASSUME NEW S, NEW b \in Seq(S), Url!HasScheme(b, Url!Scheme),
           Url!Authority(Url!AfterScheme(b)) # <<>>,
           ~Url!Contains(Url!Authority(Url!AfterScheme(b)), "@")
    PROVE  Origin(b, Url!AuthorityLength(Url!AfterScheme(b)))
<1> DEFINE r == Url!AfterScheme(b)
<1>1. Len(b) \in Nat /\ Len(b) >= 3
  BY LenProperties DEF Url!HasScheme
<1>2. PICK n \in 0..Len(b) - 3 :
        /\ Url!AuthorityLength(r) = n
        /\ \A i \in 4..3 + n : b[i] \notin Url!Delimiter
        /\ 3 + n < Len(b) => b[4 + n] \in Url!Delimiter
  BY <1>1, AuthorityCut
<1>3. Url!Authority(r) = SubSeq(b, 4, 3 + n)
  <2>1. 4 \in Nat /\ 1 \in Nat /\ n =< Len(b) - 4 + 1 /\ 4 + 1 - 1 = 4 /\ 4 + n - 1 = 3 + n
    BY <1>1
  <2>2. SubSeq(SubSeq(b, 4, Len(b)), 1, n) = SubSeq(b, 4 + 1 - 1, 4 + n - 1)
    BY <1>1, <2>1, PartOfPart
  <2> QED BY <1>2, <2>1, <2>2 DEF Url!Authority, Url!AfterScheme
<1>4. n >= 1
  <2>1. CASE n = 0
    <3>1. SubSeq(b, 4, 3 + n) = <<>>
      BY <2>1, SubSeqEmpty
    <3> QED BY <1>3, <3>1
  <2> QED BY <2>1
<1>5. /\ Len(SubSeq(b, 4, 3 + n)) = n
      /\ \A i \in 1..n : SubSeq(b, 4, 3 + n)[i] = b[3 + i]
  <2>1. 4 =< 3 + n /\ (3 + n) - 4 + 1 = n /\ 3 + n =< Len(b)
        /\ \A i \in 1..n : 4 + i - 1 = 3 + i
    BY <1>1, <1>4
  <2> QED BY <1>1, <2>1, PartOf
<1>6. ASSUME NEW i \in 4..3 + n PROVE b[i] # "@"
  <2>1. i - 3 \in 1..n /\ 3 + (i - 3) = i
    BY <1>1
  <2> QED BY <1>3, <1>5, <2>1 DEF Url!Contains
<1> HIDE DEF r
<1>7. 3 + n =< Len(b)
  BY <1>1
<1> QED BY <1>2, <1>4, <1>6, <1>7 DEF Origin, Url!HasScheme, r

\* The first n tokens of a sequence.
LEMMA Prefix ==
    ASSUME NEW S, NEW s \in Seq(S), NEW n \in 0..Len(s)
    PROVE  /\ SubSeq(s, 1, n) \in Seq(S) /\ Len(SubSeq(s, 1, n)) = n
           /\ \A i \in 1..n : SubSeq(s, 1, n)[i] = s[i]
<1>1. Len(s) \in Nat /\ n \in Int /\ n =< Len(s) /\ n >= 0
  BY LenProperties
<1>2. /\ SubSeq(s, 1, n) \in Seq(S)
      /\ Len(SubSeq(s, 1, n)) = IF 1 =< n THEN n - 1 + 1 ELSE 0
      /\ \A i \in 1..n - 1 + 1 : SubSeq(s, 1, n)[i] = s[1 + i - 1]
  BY <1>1, PartOf
<1>3. n - 1 + 1 = n /\ (~(1 =< n) => n = 0) /\ \A i \in 1..n : 1 + i - 1 = i
  BY <1>1
<1> QED BY <1>2, <1>3

\* A prefix that has all of the host is of the same host.
LEMMA OriginOfPrefix ==
    ASSUME NEW S, NEW b \in Seq(S), NEW n, Origin(b, n), NEW k \in 3 + n..Len(b)
    PROVE  Origin(SubSeq(b, 1, k), n)
<1> DEFINE p == SubSeq(b, 1, k)
<1>1. n \in Nat /\ n >= 1 /\ Len(b) \in Nat /\ k \in 0..Len(b) /\ k >= 3 + n
  BY LenProperties DEF Origin
<1>2. Len(p) = k /\ \A i \in 1..k : p[i] = b[i]
  BY <1>1, Prefix
<1> HIDE DEF p
<1>3. p[1] = b[1] /\ p[2] = b[2] /\ p[3] = b[3]
  <2>1. 1 \in 1..k /\ 2 \in 1..k /\ 3 \in 1..k
    BY <1>1
  <2> QED BY <1>2, <2>1
<1>4. \A i \in 4..3 + n : i \in 1..k
  BY <1>1
<1>5. 3 + n < k => 4 + n \in 1..k /\ 3 + n < Len(b)
  BY <1>1
<1> QED BY <1>1, <1>2, <1>3, <1>4, <1>5 DEF Origin, p

\* The path of such a URL is what follows the host, without the slashes at its end.
LEMMA OriginPath ==
    ASSUME NEW S, NEW b \in Seq(S), NEW n, Origin(b, n)
    PROVE  Url!Path(Url!AfterScheme(b))
             = Url!TrimEnd(SubSeq(b, 4 + n, Len(b)), Url!Slash)
<1> DEFINE r == SubSeq(b, 4, Len(b))
<1>1. n \in Nat /\ n >= 1 /\ Len(b) \in Nat /\ 3 + n =< Len(b)
  BY LenProperties DEF Origin
<1>2. Len(r) = Len(b) - 3
  <2>1. 4 =< Len(b) /\ Len(b) - 4 + 1 = Len(b) - 3
    BY <1>1
  <2> QED BY <1>1, <2>1, PartOf
<1>3. SubSeq(r, n + 1, Len(b) - 3) = SubSeq(b, 4 + n, Len(b))
  <2>1. /\ 4 \in Nat /\ n + 1 \in Nat /\ n + 1 >= 1 /\ Len(b) - 3 \in Int
        /\ Len(b) - 3 =< Len(b) - 4 + 1
        /\ 4 + (n + 1) - 1 = 4 + n /\ 4 + (Len(b) - 3) - 1 = Len(b)
    BY <1>1
  <2>2. SubSeq(SubSeq(b, 4, Len(b)), n + 1, Len(b) - 3)
          = SubSeq(b, 4 + (n + 1) - 1, 4 + (Len(b) - 3) - 1)
    BY <1>1, <2>1, PartOfPart
  <2> QED BY <2>1, <2>2
<1>4. Url!AfterScheme(b) = r
  BY DEF Url!AfterScheme
<1>5. Url!AuthorityLength(r) = n
  BY <1>4, OriginAuthority
<1> HIDE DEF r
<1> QED BY <1>2, <1>3, <1>4, <1>5 DEF Url!Path

\* A suffix of the path is a suffix of the URL, and leaves the host.
LEMMA OriginApi ==
    ASSUME NEW S, NEW b \in Seq(S), NEW n, Origin(b, n),
           \A c \in Url!Api : Url!Suffix[c] \in Seq(S),
           Url!ApiOf(Url!Path(Url!AfterScheme(b))) # Url!NoApi
    PROVE  LET a == Url!ApiOf(Url!Path(Url!AfterScheme(b)))
           IN  \E k \in 0..Len(b) :
                 /\ Url!TrimEnd(b, Url!Slash) = SubSeq(b, 1, k)
                 /\ k - Len(Url!Suffix[a]) >= 3 + n
                 /\ a \in Url!Api /\ Ends(SubSeq(b, 1, k), a)
<1> DEFINE p == SubSeq(b, 4 + n, Len(b))
           path == Url!TrimEnd(p, Url!Slash)
           a == Url!ApiOf(path)
           x == Url!Suffix[a]
<1>1. n \in Nat /\ n >= 1 /\ Len(b) \in Nat /\ 3 + n =< Len(b)
  BY LenProperties DEF Origin
<1>2. Url!Path(Url!AfterScheme(b)) = path
  BY OriginPath
<1>3. /\ p \in Seq(S) /\ Len(p) = Len(b) - (3 + n)
      /\ \A i \in 1..Len(b) - (3 + n) : p[i] = b[3 + n + i]
  <2>1. /\ p \in Seq(S) /\ Len(p) = IF 4 + n =< Len(b) THEN Len(b) - (4 + n) + 1 ELSE 0
        /\ \A i \in 1..Len(b) - (4 + n) + 1 : p[i] = b[(4 + n) + i - 1]
    <3>1. 4 + n \in Nat /\ 4 + n >= 1
      BY <1>1
    <3> QED BY <1>1, <3>1, PartOf
  <2>2. /\ Len(b) - (4 + n) + 1 = Len(b) - (3 + n)
        /\ ~(4 + n =< Len(b)) => Len(b) - (3 + n) = 0
        /\ \A i \in 1..Len(b) - (3 + n) : (4 + n) + i - 1 = 3 + n + i
    BY <1>1
  <2> HIDE DEF p
  <2> QED BY <2>1, <2>2
<1> HIDE DEF p
<1>4. PICK k \in 0..Len(p) :
        /\ path = SubSeq(p, 1, k)
        /\ k > 0 => p[k] \notin Url!Slash
        /\ \A i \in k + 1..Len(p) : p[i] \in Url!Slash
  BY <1>3, TrimEndCut
<1>5. /\ path \in Seq(S) /\ Len(path) = k /\ \A i \in 1..k : path[i] = p[i]
  BY <1>3, <1>4, Prefix
<1> HIDE DEF path
<1>6. a \in Url!Api /\ Ends(path, a)
  BY <1>2, <1>5, ApiOfIs
<1> HIDE DEF a
<1>7. /\ Len(x) \in Nat /\ Len(x) >= 2 /\ Len(x) =< k
      /\ \A i \in 1..Len(x) : path[k - Len(x) + i] = x[i]
  BY <1>5, <1>6, SuffixWords DEF Ends
<1> HIDE DEF x
<1> DEFINE m == 3 + n + k
           u == SubSeq(b, 1, m)
<1>8. m \in 0..Len(b) /\ m > 0 /\ k \in 1..Len(p) /\ m - Len(x) >= 3 + n
  BY <1>1, <1>3, <1>7
<1>9. Url!TrimEnd(b, Url!Slash) = u
  <2>1. b[m] \notin Url!Slash
    BY <1>3, <1>4, <1>8
  <2>2. ASSUME NEW i \in m + 1..Len(b) PROVE b[i] \in Url!Slash
    <3>1. i - (3 + n) \in k + 1..Len(p) /\ 3 + n + (i - (3 + n)) = i
          /\ i - (3 + n) \in 1..Len(b) - (3 + n)
      BY <1>1, <1>3, <1>8
    <3> QED BY <1>3, <1>4, <3>1
  <2> QED BY <1>8, <2>1, <2>2, TrimEndIs
<1>10. Ends(u, a)
  <2>1. Len(u) = m /\ \A i \in 1..m : u[i] = b[i]
    BY <1>8, Prefix
  <2> HIDE DEF u
  <2>2. ASSUME NEW i \in 1..Len(x) PROVE u[m - Len(x) + i] = x[i]
    <3>1. /\ m - Len(x) + i \in 1..m
          /\ k - Len(x) + i \in 1..k /\ k - Len(x) + i \in 1..Len(b) - (3 + n)
          /\ 3 + n + (k - Len(x) + i) = m - Len(x) + i
      BY <1>1, <1>3, <1>7, <1>8
    <3>2. /\ path[k - Len(x) + i] = x[i]
          /\ path[k - Len(x) + i] = p[k - Len(x) + i]
          /\ p[k - Len(x) + i] = b[3 + n + (k - Len(x) + i)]
      BY <1>3, <1>5, <1>7, <3>1
    <3>3. u[m - Len(x) + i] = b[m - Len(x) + i]
      BY <2>1, <3>1
    <3> HIDE DEF m
    <3> QED BY <3>1, <3>2, <3>3
  <2>3. Len(x) =< m
    BY <1>1, <1>7
  <2> HIDE DEF m
  <2> QED BY <2>1, <2>2, <2>3 DEF Ends, x
<1>11. Url!ApiOf(Url!Path(Url!AfterScheme(b))) = a
  BY <1>2 DEF a
<1> HIDE DEF m
<1> QED BY <1>6, <1>8, <1>9, <1>10, <1>11 DEF x, u

\* What is left of such a URL when a suffix goes, with the slashes before it, still
\* has the host.
LEMMA OriginBase ==
    ASSUME NEW S, NEW b \in Seq(S), NEW n, Origin(b, n), NEW k \in 3 + n..Len(b)
    PROVE  \E j \in 3 + n..k :
             /\ Url!TrimEnd(SubSeq(b, 1, k), Url!Slash) = SubSeq(b, 1, j)
             /\ b[j] \notin Url!Slash
<1> DEFINE p == SubSeq(b, 1, k)
<1>1. n \in Nat /\ n >= 1 /\ Len(b) \in Nat /\ k \in 0..Len(b) /\ k >= 3 + n
  BY LenProperties DEF Origin
<1>2. p \in Seq(S) /\ Len(p) = k /\ \A i \in 1..k : p[i] = b[i]
  BY <1>1, Prefix
<1> HIDE DEF p
<1>3. PICK j \in 0..Len(p) :
        /\ Url!TrimEnd(p, Url!Slash) = SubSeq(p, 1, j)
        /\ j > 0 => p[j] \notin Url!Slash
        /\ \A i \in j + 1..Len(p) : p[i] \in Url!Slash
  BY <1>2, TrimEndCut
<1>4. j >= 3 + n
  <2>1. 3 + n \in 4..3 + n /\ 3 + n \in 1..k
    BY <1>1
  <2>2. p[3 + n] \notin Url!Slash
    BY <1>2, <2>1 DEF Origin, Url!Slash, Url!Delimiter
  <2>3. ~(j < 3 + n)
    BY <1>1, <1>2, <1>3, <2>2
  <2> QED BY <1>1, <1>2, <2>3
<1>5. j \in 3 + n..k /\ j \in 1..k
  BY <1>1, <1>2, <1>4
<1>6. SubSeq(p, 1, j) = SubSeq(b, 1, j)
  <2>1. j \in Int /\ j =< k - 1 + 1 /\ 1 + 1 - 1 = 1 /\ 1 + j - 1 = j /\ k \in Int
    BY <1>1, <1>5
  <2>2. SubSeq(SubSeq(b, 1, k), 1, j) = SubSeq(b, 1 + 1 - 1, 1 + j - 1)
    BY <1>1, <2>1, PartOfPart
  <2> QED BY <2>1, <2>2 DEF p
<1>7. b[j] \notin Url!Slash
  BY <1>2, <1>3, <1>5
<1>8. Url!TrimEnd(SubSeq(b, 1, k), Url!Slash) = SubSeq(b, 1, j)
  BY <1>3, <1>6 DEF p
<1> HIDE <1>3
<1> QED BY <1>5, <1>7, <1>8

\* A text that ends in a suffix ends in no slash.
LEMMA EndsTrimmed ==
    ASSUME NEW S, NEW s \in Seq(S), NEW a \in Url!Api, Ends(s, a)
    PROVE  /\ Url!TrimEnd(s, Url!Slash) = s
           /\ s[Len(s)] \notin Blank /\ Len(s) >= 2
<1> DEFINE x == Url!Suffix[a]
<1>1. Len(x) \in Nat /\ Len(x) >= 2 /\ Len(s) \in Nat /\ Len(x) =< Len(s)
  BY SuffixWords, LenProperties DEF Ends
<1>2. Len(x) \in 1..Len(x) /\ Len(s) - Len(x) + Len(x) = Len(s)
  BY <1>1
<1>3. s[Len(s)] = x[Len(x)]
  BY <1>2 DEF Ends
<1>4. s[Len(s)] \notin Url!Slash /\ s[Len(s)] \notin Blank
  BY <1>3, SuffixWords
<1> HIDE DEF x
<1>5. Len(s) \in 0..Len(s) /\ \A i \in Len(s) + 1..Len(s) : FALSE
  BY <1>1
<1>6. Url!TrimEnd(s, Url!Slash) = SubSeq(s, 1, Len(s))
  BY <1>4, <1>5, TrimEndIs
<1> QED BY <1>1, <1>4, <1>6, SubSeqFull

\* A suffix put on such a URL makes a valid one of its API, with the same base.
LEMMA WithSuffix ==
    ASSUME NEW S, NEW c \in Seq(S), NEW n, Origin(c, n), NEW a \in Url!Api,
           \A d \in Url!Api : Url!Suffix[d] \in Seq(S)
    PROVE  LET new == c \o Url!Suffix[a] IN
             /\ Url!ValidateEndpointUrl(new) = a /\ Url!ActiveApi(new) = a
             /\ Url!BaseUrl(new) = Url!TrimEnd(c, Url!Slash)
<1> DEFINE x == Url!Suffix[a]
           new == c \o x
<1>1. /\ n \in Nat /\ n >= 1 /\ Len(c) \in Nat /\ 3 + n =< Len(c)
      /\ x \in Seq(S) /\ Len(x) \in Nat /\ Len(x) >= 2 /\ x[1] = "/"
  BY SuffixWords, LenProperties DEF Origin
<1> HIDE DEF x
<1>2. /\ new \in Seq(S) /\ Len(new) = Len(c) + Len(x)
      /\ \A i \in 1..Len(c) : new[i] = c[i]
      /\ \A i \in 1..Len(x) : new[Len(c) + i] = x[i]
  <2>1. /\ new \in Seq(S) /\ Len(new) = Len(c) + Len(x)
        /\ \A i \in 1..Len(c) + Len(x) :
             new[i] = IF i =< Len(c) THEN c[i] ELSE x[i - Len(c)]
    BY <1>1, ConcatProperties
  <2> HIDE DEF new
  <2>2. \A i \in 1..Len(c) : i \in 1..Len(c) + Len(x) /\ i =< Len(c)
    BY <1>1
  <2>3. \A i \in 1..Len(x) : /\ Len(c) + i \in 1..Len(c) + Len(x)
                             /\ ~(Len(c) + i =< Len(c)) /\ Len(c) + i - Len(c) = i
    BY <1>1
  <2>4. \A i \in 1..Len(c) : new[i] = c[i]
    BY <2>1, <2>2
  <2>5. \A i \in 1..Len(x) : new[Len(c) + i] = x[i]
    BY <2>1, <2>3
  <2> QED BY <2>1, <2>4, <2>5
<1> HIDE DEF new
<1>3. Origin(new, n)
  <2>1. new[1] = c[1] /\ new[2] = c[2] /\ new[3] = c[3]
    <3>1. 1 \in 1..Len(c) /\ 2 \in 1..Len(c) /\ 3 \in 1..Len(c)
      BY <1>1
    <3> QED BY <1>2, <3>1
  <2>2. \A i \in 4..3 + n : new[i] = c[i]
    <3>1. \A i \in 4..3 + n : i \in 1..Len(c)
      BY <1>1
    <3> QED BY <1>2, <3>1
  <2>3. new[4 + n] \in Url!Delimiter
    <3>1. CASE 3 + n < Len(c)
      <4>1. 4 + n \in 1..Len(c)
        BY <1>1, <3>1
      <4> QED BY <1>2, <3>1, <4>1 DEF Origin
    <3>2. CASE 3 + n = Len(c)
      <4>1. 1 \in 1..Len(x) /\ Len(c) + 1 = 4 + n
        BY <1>1, <3>2
      <4> QED BY <1>1, <1>2, <4>1 DEF Url!Delimiter
    <3> QED BY <1>1, <3>1, <3>2
  <2>4. 3 + n =< Len(new)
    BY <1>1, <1>2
  <2> QED BY <1>1, <2>1, <2>2, <2>3, <2>4 DEF Origin
<1>4. Ends(new, a)
  <2>1. Len(new) - Len(x) = Len(c) /\ Len(x) =< Len(new)
    BY <1>1, <1>2
  <2> QED BY <1>2, <2>1 DEF Ends, x
<1>5. Url!TrimEnd(new, Url!Slash) = new /\ new[Len(new)] \notin Blank
  BY <1>2, <1>4, EndsTrimmed
<1>6. Url!ActiveApi(new) = a
  BY <1>2, <1>4, <1>5, ApiOfIs DEF Url!ActiveApi
<1>7. Url!Trim(new) = new
  <2>1. new[1] \notin Blank
    BY <1>3 DEF Origin, Url!Scheme, Blank
  <2> QED BY <1>2, <1>5, <2>1, TrimmedIs, TrimUrlIsTrim
<1> DEFINE p == SubSeq(new, 4 + n, Len(new))
<1>8. Ends(p, a)
  <2>1. /\ 4 + n \in Nat /\ 4 + n >= 1 /\ Len(new) \in Int /\ 4 + n =< Len(new)
        /\ Len(new) - (4 + n) + 1 = Len(new) - (3 + n)
        /\ Len(x) =< Len(new) - (3 + n)
    BY <1>1, <1>2
  <2>2. /\ p \in Seq(S) /\ Len(p) = Len(new) - (3 + n)
        /\ \A i \in 1..Len(new) - (3 + n) : p[i] = new[(4 + n) + i - 1]
    <3> DEFINE m == 4 + n
               l == Len(new)
    <3>1. /\ m \in Nat /\ m >= 1 /\ l \in Int /\ l =< Len(new) /\ m =< l
          /\ l - m + 1 = Len(new) - (3 + n)
      BY <2>1
    <3>2. new \in Seq(S)
      BY <1>2
    <3>3. p = SubSeq(new, m, l)
      OBVIOUS
    <3> HIDE DEF m, l, p
    <3>4. /\ SubSeq(new, m, l) \in Seq(S) /\ Len(SubSeq(new, m, l)) = l - m + 1
          /\ \A i \in 1..l - m + 1 : SubSeq(new, m, l)[i] = new[m + i - 1]
      BY <3>1, <3>2, PartOf
    <3>5. p \in Seq(S) /\ Len(p) = Len(new) - (3 + n)
      BY <3>1, <3>3, <3>4
    <3>6. \A i \in 1..Len(new) - (3 + n) : p[i] = new[m + i - 1]
      BY <3>1, <3>3, <3>4
    <3> QED BY <3>5, <3>6 DEF m
  <2> HIDE DEF p
  <2>3. ASSUME NEW i \in 1..Len(x) PROVE p[Len(p) - Len(x) + i] = x[i]
    <3>1. /\ Len(p) - Len(x) + i \in 1..Len(new) - (3 + n)
          /\ (4 + n) + (Len(p) - Len(x) + i) - 1 = Len(c) + i
      BY <1>1, <1>2, <2>1, <2>2
    <3> QED BY <1>2, <2>2, <3>1
  <2> QED BY <2>1, <2>2, <2>3 DEF Ends, x
<1>9. p \in Seq(S)
  <2>1. 4 + n \in Nat /\ 4 + n >= 1 /\ Len(new) \in Int /\ Len(new) =< Len(new)
    BY <1>1, <1>2
  <2> QED BY <1>2, <2>1, PartOf
<1>10. Url!ApiOf(Url!Path(Url!AfterScheme(new))) = a
  <2>1. Url!Path(Url!AfterScheme(new)) = Url!TrimEnd(p, Url!Slash)
    BY <1>2, <1>3, OriginPath
  <2>2. Url!TrimEnd(p, Url!Slash) = p
    BY <1>8, <1>9, EndsTrimmed
  <2> HIDE DEF p
  <2> QED BY <1>8, <1>9, <2>1, <2>2, ApiOfIs
<1>11. Url!ValidateEndpointUrl(new) = a
  BY <1>2, <1>3, <1>7, <1>10, OriginAuthority DEF Url!ValidateEndpointUrl
<1>12. Url!BaseUrl(new) = Url!TrimEnd(c, Url!Slash)
  <2>1. Len(new) - Len(Url!Suffix[a]) = Len(c)
    BY <1>1, <1>2 DEF x
  <2>2. SubSeq(new, 1, Len(c)) = c
    <3>1. Len(c) \in 0..Len(new)
      BY <1>1, <1>2
    <3>2. /\ SubSeq(new, 1, Len(c)) \in Seq(S) /\ Len(SubSeq(new, 1, Len(c))) = Len(c)
          /\ \A i \in 1..Len(c) : SubSeq(new, 1, Len(c))[i] = new[i]
      BY <1>2, <3>1, Prefix
    <3> QED BY <1>2, <3>2, SeqEqual
  <2> QED BY <1>5, <1>6, <2>1, <2>2 DEF Url!BaseUrl
<1> QED BY <1>6, <1>11, <1>12 DEF new, x

\* What is known of a text that passes validation.
LEMMA ValidEndpoint ==
    ASSUME NEW url, IsText(url), Url!ValidateEndpointUrl(url) # Url!NoApi
    PROVE  /\ Url!WindowNotStricter(url) /\ Url!ValidMeansConfigured(url)
           /\ Url!ModeKeepsBase(url)
<1> DEFINE S == Tokens(url)
           t == Url!Trim(url)
           r == Url!AfterScheme(t)
           n == Url!AuthorityLength(r)
           v == Url!ValidateEndpointUrl(url)
<1>1. url \in Seq(S) /\ \A api \in Url!Api : Url!Suffix[api] \in Seq(S)
  BY TokensOf
<1> HIDE DEF S
<1>2. t \in Seq(S)
  BY <1>1, TrimUrlIsTrim, TrimTrimmed
<1>3. /\ Url!HasScheme(t, Url!Scheme)
      /\ Url!Authority(r) # <<>> /\ ~Url!Contains(Url!Authority(r), "@")
      /\ v = Url!ApiOf(Url!Path(r)) /\ v # Url!NoApi
  BY DEF Url!ValidateEndpointUrl
<1>4. Origin(t, n)
  BY <1>2, <1>3, AuthorityOrigin
<1>5. PICK k \in 0..Len(t) :
        /\ Url!TrimEnd(t, Url!Slash) = SubSeq(t, 1, k)
        /\ k - Len(Url!Suffix[v]) >= 3 + n
        /\ v \in Url!Api /\ Ends(SubSeq(t, 1, k), v)
  BY <1>1, <1>2, <1>3, <1>4, OriginApi
<1> HIDE DEF t, v
<1> DEFINE u == SubSeq(t, 1, k)
           l == Len(Url!Suffix[v])
<1>6. u \in Seq(S) /\ Len(u) = k
  BY <1>2, Prefix
<1>7. Url!ApiOf(u) = v /\ Url!NoApi \notin Url!Api
  BY <1>1, <1>5, <1>6, ApiOfIs DEF Url!NoApi, Url!Api
<1>8. Url!WindowNotStricter(url)
  <2>1. Url!HasScheme(t, Url!AnyCaseScheme)
    BY <1>3 DEF Url!HasScheme, Url!AnyCaseScheme
  <2>2. Url!DetectApi(url) = v
    BY <1>5, <1>7 DEF Url!DetectApi, t
  <2> QED BY <1>3, <2>1, <2>2 DEF Url!WindowNotStricter, Url!WindowAccepts, t, v
<1>9. n \in Nat /\ n >= 1 /\ l \in Nat /\ l >= 2 /\ Len(t) \in Nat
  BY <1>2, <1>4, <1>5, SuffixWords, LenProperties DEF Origin
<1> HIDE DEF n, l
<1>10. k - l \in 3 + n..Len(t) /\ k - l =< k - 1 + 1 /\ k \in Nat
  <2>1. k - l >= 3 + n
    BY <1>5 DEF l
  <2>2. k \in Nat /\ k =< Len(t)
    BY <1>9
  <2> QED BY <1>9, <2>1, <2>2
<1>11. PICK j \in 3 + n..k - l :
         /\ Url!TrimEnd(SubSeq(t, 1, k - l), Url!Slash) = SubSeq(t, 1, j)
         /\ t[j] \notin Url!Slash
  BY <1>2, <1>4, <1>10, OriginBase
<1> DEFINE base == SubSeq(t, 1, j)
<1>12. SubSeq(u, 1, k - l) = SubSeq(t, 1, k - l)
  <2>1. k \in Int /\ k =< Len(t) /\ k - l \in Int /\ 1 + 1 - 1 = 1 /\ 1 + (k - l) - 1 = k - l
    BY <1>9, <1>10
  <2>2. SubSeq(SubSeq(t, 1, k), 1, k - l) = SubSeq(t, 1 + 1 - 1, 1 + (k - l) - 1)
    BY <1>2, <1>10, <2>1, PartOfPart
  <2> QED BY <2>1, <2>2
<1>13. Url!TrimEnd(SubSeq(u, 1, Len(u) - Len(Url!Suffix[v])), Url!Slash) = base
  BY <1>6, <1>11, <1>12 DEF l
<1>14. j \in 0..Len(t) /\ j \in 3 + n..Len(t) /\ j > 0
  BY <1>9, <1>10, <1>11
<1>15. base \in Seq(S) /\ Len(base) = j /\ \A i \in 1..j : base[i] = t[i]
  BY <1>2, <1>14, Prefix
<1>16. Origin(base, n)
  BY <1>2, <1>4, <1>14, OriginOfPrefix
<1>17. Url!TrimEnd(base, Url!Slash) = base
  <2> HIDE DEF base
  <2>1. j \in 1..j /\ Len(base) \in 0..Len(base) /\ \A i \in Len(base) + 1..Len(base) : FALSE
    BY <1>14, <1>15
  <2>2. base[Len(base)] \notin Url!Slash
    BY <1>11, <1>15, <2>1
  <2>3. Url!TrimEnd(base, Url!Slash) = SubSeq(base, 1, Len(base))
    BY <1>15, <2>1, <2>2, TrimEndIs
  <2> QED BY <1>15, <2>3, SubSeqFull
<1> HIDE DEF base, u
<1>18. ASSUME t = url
       PROVE  Url!ActiveApi(url) = v /\ Url!BaseUrl(url) = base
  <2>1. Url!ActiveApi(url) = v
    BY <1>5, <1>7, <1>18 DEF Url!ActiveApi, u
  <2> QED BY <1>5, <1>13, <1>18, <2>1 DEF Url!BaseUrl, u
<1>19. Url!ValidMeansConfigured(url)
  <2> SUFFICES ASSUME t = url
               PROVE  /\ Url!ActiveApi(url) = v
                      /\ Url!HasScheme(Url!BaseUrl(url), Url!Scheme)
                      /\ Url!Authority(Url!AfterScheme(Url!BaseUrl(url)))
                           = Url!Authority(Url!AfterScheme(url))
    BY DEF Url!ValidMeansConfigured, t, v
  <2>1. /\ Url!HasScheme(base, Url!Scheme)
        /\ Url!Authority(Url!AfterScheme(base)) = SubSeq(base, 4, 3 + n)
    BY <1>15, <1>16, OriginAuthority
  <2>2. Url!Authority(Url!AfterScheme(t)) = SubSeq(t, 4, 3 + n)
    BY <1>2, <1>4, OriginAuthority
  <2>3. SubSeq(base, 4, 3 + n) = SubSeq(t, 4, 3 + n)
    <3>1. /\ 4 \in Nat /\ 3 + n \in Int /\ 3 + n =< j - 1 + 1 /\ j \in Int /\ j =< Len(t)
          /\ 1 + 4 - 1 = 4 /\ 1 + (3 + n) - 1 = 3 + n
      BY <1>9, <1>14
    <3>2. SubSeq(SubSeq(t, 1, j), 4, 3 + n) = SubSeq(t, 1 + 4 - 1, 1 + (3 + n) - 1)
      BY <1>2, <3>1, PartOfPart
    <3> QED BY <3>1, <3>2 DEF base
  <2> QED BY <1>18, <2>1, <2>2, <2>3
<1>20. Url!ModeKeepsBase(url)
  <2> SUFFICES ASSUME t = url, NEW api \in Url!Api
               PROVE  LET new == Url!RewriteSuffix(url, api) IN
                        /\ Url!ValidateEndpointUrl(new) = api
                        /\ Url!EndpointKey(new) = Url!EndpointKey(url)
    BY DEF Url!ModeKeepsBase, t
  <2>1. Url!RewriteSuffix(url, api) = base \o Url!Suffix[api]
    <3>1. Url!TrimEnd(Url!Trim(url), Url!Slash) = u
      BY <1>5 DEF t, u
    <3>2. Url!ApiOf(u) # Url!NoApi
      BY <1>5, <1>7
    <3>3. Url!RewriteSuffix(url, api) =
            Url!TrimEnd(SubSeq(u, 1, Len(u) - Len(Url!Suffix[Url!ApiOf(u)])), Url!Slash)
              \o Url!Suffix[api]
      BY <3>1, <3>2, Zenon DEF Url!RewriteSuffix
    <3> QED BY <1>7, <1>13, <3>3
  <2> DEFINE new == base \o Url!Suffix[api]
  <2>2. /\ Url!ValidateEndpointUrl(new) = api /\ Url!ActiveApi(new) = api
        /\ Url!BaseUrl(new) = base
    BY <1>1, <1>15, <1>16, <1>17, WithSuffix
  <2> HIDE DEF new
  <2>3. Url!EndpointKey(new) = base
    BY <1>7, <2>2 DEF Url!EndpointKey, Url!IsConfigured
  <2>4. Url!EndpointKey(url) = base
    BY <1>5, <1>7, <1>18 DEF Url!EndpointKey, Url!IsConfigured
  <2> QED BY <2>1, <2>2, <2>3, <2>4 DEF new
<1> QED BY <1>8, <1>19, <1>20
=============================================================================

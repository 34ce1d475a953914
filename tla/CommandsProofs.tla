--------------------------- MODULE CommandsProofs ---------------------------
(***************************************************************************)
(* The commands of service checks: a signature tells the command lines apart *)
(* that nagios puts values into; for any texts, options and timeouts.      *)
(***************************************************************************)
EXTENDS Library, SequenceTheorems, WellFoundedInduction, NaturalsInduction, TLAPS

-----------------------------------------------------------------------------
(***************************************************************************)
(* Joined sequences.                                                       *)
(***************************************************************************)
\* A set of numbers that has zero and the successors of its members has all numbers.
LEMMA NumbersInductive ==
    ASSUME NEW P \in SUBSET Nat, 0 \in P, \A n \in P : n + 1 \in P
    PROVE  P = Nat
<1> DEFINE R == OpToRel(<, Nat)
           bad == Nat \ P
<1> SUFFICES ASSUME bad # {} PROVE FALSE
    OBVIOUS
<1>1. \E i \in bad : \A j \in bad : <<j, i>> \notin R
    <2> bad \subseteq Nat
        OBVIOUS
    <2> HIDE DEF bad, R
    <2> QED BY WFMin, NatLessThanWellFounded DEF R
<1>2. PICK i \in bad : \A j \in bad : <<j, i>> \notin R
    BY <1>1
<1>3. i \in Nat /\ i # 0 /\ i - 1 \in Nat /\ i - 1 < i /\ (i - 1) + 1 = i
    OBVIOUS
<1>4. i - 1 \in bad
    BY <1>3
<1>5. <<i - 1, i>> \in R
    <2>1. <<i - 1, i>> \in Nat \X Nat /\ <<i - 1, i>>[1] = i - 1 /\ <<i - 1, i>>[2] = i
        BY <1>3
    <2> QED BY <1>3, <2>1 DEF OpToRel
<1> QED BY <1>2, <1>4, <1>5

\* The partial concatenations of s.
IsFlat(s, n, f) == f = [i \in 1 .. n |-> IF i = 1 THEN s[i] ELSE f[i - 1] \o s[i]]

LEMMA FlatExists ==
    ASSUME NEW s, NEW n \in Nat
    PROVE  \E f : IsFlat(s, n, f)
<1> DEFINE P == {k \in Nat : \E f : IsFlat(s, k, f)}
<1>1. 0 \in P
    <2> DEFINE f == [i \in 1 .. 0 |-> s[i]]
    <2>1. IsFlat(s, 0, f)
        BY DEF IsFlat
    <2> QED BY <2>1
<1>2. ASSUME NEW k \in P PROVE k + 1 \in P
    <2>1. PICK g : IsFlat(s, k, g)
        OBVIOUS
    <2> DEFINE f == [i \in 1 .. k + 1 |-> IF i = 1 THEN s[i] ELSE g[i - 1] \o s[i]]
    <2>2. ASSUME NEW i \in 1 .. k PROVE f[i] = g[i]
        <3>1. g[i] = IF i = 1 THEN s[i] ELSE g[i - 1] \o s[i]
            BY <2>1 DEF IsFlat
        <3> QED BY <3>1
    <2>3. ASSUME NEW i \in 1 .. k + 1, i # 1 PROVE f[i - 1] = g[i - 1]
        <3>1. i - 1 \in 1 .. k
            BY <2>3
        <3> HIDE DEF f
        <3> QED BY <2>2, <3>1
    <2>4. f = [i \in 1 .. k + 1 |-> IF i = 1 THEN s[i] ELSE f[i - 1] \o s[i]]
        BY <2>3
    <2> HIDE DEF f
    <2>5. IsFlat(s, k + 1, f)
        BY <2>4 DEF IsFlat
    <2> QED BY <2>5
<1> QED
    <2> HIDE DEF P
    <2>1. P \in SUBSET Nat
        BY DEF P
    <2>2. P = Nat
        BY <1>1, <1>2, <2>1, NumbersInductive
    <2> QED BY <2>2 DEF P

LEMMA FlatAt ==
    ASSUME NEW s, NEW n, NEW f, IsFlat(s, n, f), NEW i \in 1 .. n
    PROVE  f[i] = IF i = 1 THEN s[i] ELSE f[i - 1] \o s[i]
BY DEF IsFlat

\* They are sequences, and those of two sequences agree as far as the sequences do.
Agree(S, s, t, f, g) ==
    \A i \in Nat :
        i \in 1 .. Len(s) /\ i \in 1 .. Len(t) /\ (\A j \in 1 .. i : s[j] = t[j])
          => f[i] = g[i] /\ f[i] \in Seq(S)

LEMMA FlatAgree ==
    ASSUME NEW S, NEW s \in Seq(Seq(S)), NEW t \in Seq(Seq(S)), NEW f, NEW g,
           IsFlat(s, Len(s), f), IsFlat(t, Len(t), g)
    PROVE  Agree(S, s, t, f, g)
<1> DEFINE P == {i \in Nat : i \in 1 .. Len(s) /\ i \in 1 .. Len(t) /\ (\A j \in 1 .. i : s[j] = t[j])
                               => f[i] = g[i] /\ f[i] \in Seq(S)}
<1>1. 0 \in P
    OBVIOUS
<1>2. ASSUME NEW k \in P PROVE k + 1 \in P
    <2> SUFFICES ASSUME k + 1 \in 1 .. Len(s), k + 1 \in 1 .. Len(t), \A j \in 1 .. k + 1 : s[j] = t[j]
                 PROVE  f[k + 1] = g[k + 1] /\ f[k + 1] \in Seq(S)
        OBVIOUS
    <2>1. s[k + 1] \in Seq(S) /\ s[k + 1] = t[k + 1]
        OBVIOUS
    <2>2. /\ f[k + 1] = IF k + 1 = 1 THEN s[k + 1] ELSE f[(k + 1) - 1] \o s[k + 1]
          /\ g[k + 1] = IF k + 1 = 1 THEN t[k + 1] ELSE g[(k + 1) - 1] \o t[k + 1]
        BY DEF IsFlat
    <2>3. CASE k = 0
        BY <2>1, <2>2, <2>3
    <2>4. CASE k # 0
        <3>1. f[k] = g[k] /\ f[k] \in Seq(S)
            BY <2>4
        <3>2. (k + 1) - 1 = k /\ k + 1 # 1
            BY <2>4
        <3>3. f[k + 1] = f[k] \o s[k + 1] /\ g[k + 1] = g[k] \o t[k + 1]
            BY <2>2, <3>2
        <3>4. f[k] \o s[k + 1] \in Seq(S)
            BY <2>1, <3>1, ConcatProperties
        <3> QED BY <2>1, <3>1, <3>3, <3>4
    <2> QED BY <2>3, <2>4
<1> QED
    <2> HIDE DEF P
    <2>1. P = Nat
        <3>1. P \in SUBSET Nat
            BY DEF P
        <3>2. \A k \in P : k + 1 \in P
            BY <1>2
        <3> QED BY <1>1, <3>1, <3>2, NumbersInductive
    <2> QED BY <2>1 DEF P, Agree

LEMMA FlattenIsFlat ==
    ASSUME NEW s, Len(s) \in Nat \ {0}
    PROVE  \E f : IsFlat(s, Len(s), f) /\ Commands!FlattenSeq(s) = f[Len(s)]
<1> DEFINE f == CHOOSE f : f = [i \in 1 .. Len(s) |-> IF i = 1 THEN s[i] ELSE f[i - 1] \o s[i]]
<1>1. \E g : IsFlat(s, Len(s), g)
    BY FlatExists
<1>2. IsFlat(s, Len(s), f)
    BY <1>1 DEF IsFlat
<1>3. Commands!FlattenSeq(s) = f[Len(s)]
    BY DEF Commands!FlattenSeq
<1> QED BY <1>2, <1>3

\* Commands!FlattenSeq joins an element after the other.
LEMMA FlattenAppend ==
    ASSUME NEW S, NEW s \in Seq(Seq(S)), NEW x \in Seq(S)
    PROVE  Commands!FlattenSeq(s) \in Seq(S) /\ Commands!FlattenSeq(Append(s, x)) = Commands!FlattenSeq(s) \o x
<1> DEFINE t == Append(s, x)
<1>1. /\ t \in Seq(Seq(S)) /\ Len(t) = Len(s) + 1 /\ t[Len(s) + 1] = x
      /\ \A i \in 1 .. Len(s) : t[i] = s[i]
    OBVIOUS
<1> HIDE DEF t
<1>2. PICK g : IsFlat(t, Len(t), g) /\ Commands!FlattenSeq(t) = g[Len(t)]
    BY <1>1, FlattenIsFlat
<1>3. g[Len(s) + 1] = IF Len(s) + 1 = 1 THEN x ELSE g[(Len(s) + 1) - 1] \o x
    <2>1. Len(s) + 1 \in 1 .. Len(t)
        BY <1>1
    <2> QED BY <1>1, <1>2, <2>1, FlatAt
<1>4. CASE s = << >>
    <2>1. Commands!FlattenSeq(s) = << >>
        BY <1>4 DEF Commands!FlattenSeq
    <2>2. Len(s) + 1 = 1
        BY <1>4
    <2>3. Commands!FlattenSeq(t) = x
        BY <1>1, <1>2, <1>3, <2>2
    <2> QED BY <2>1, <2>3, ConcatEmptySeq DEF t
<1>5. CASE s # << >>
    <2>1. Len(s) \in Nat \ {0} /\ Len(s) + 1 # 1 /\ (Len(s) + 1) - 1 = Len(s)
        BY <1>5
    <2>2. PICK f : IsFlat(s, Len(s), f) /\ Commands!FlattenSeq(s) = f[Len(s)]
        BY <2>1, FlattenIsFlat
    <2>3. f[Len(s)] = g[Len(s)] /\ f[Len(s)] \in Seq(S)
        <3>1. Len(s) \in 1 .. Len(s) /\ Len(s) \in 1 .. Len(t)
            BY <1>1, <2>1
        <3>2. Agree(S, s, t, f, g)
            BY <1>1, <1>2, <2>2, FlatAgree
        <3>3. \A j \in 1 .. Len(s) : s[j] = t[j]
            BY <1>1
        <3> QED BY <2>1, <3>1, <3>2, <3>3 DEF Agree
    <2> QED BY <1>1, <1>2, <1>3, <2>1, <2>2, <2>3 DEF t
<1> QED BY <1>4, <1>5

LEMMA FrontAndLast ==
    ASSUME NEW T, NEW s \in Seq(T), s # << >>
    PROVE  \E front \in Seq(T), x \in T : s = Append(front, x) /\ Len(s) = Len(front) + 1
BY SequenceEmptyOrAppend, AppendProperties

\* What comes first in a joined sequence.
LEMMA FlattenFirst ==
    ASSUME NEW S
    PROVE  \A s \in Seq(Seq(S)) : s # << >> /\ s[1] # << >>
              => Commands!FlattenSeq(s) # << >> /\ Commands!FlattenSeq(s)[1] = s[1][1]
<1> DEFINE First(s) == s[1] # << >> => Commands!FlattenSeq(s) # << >> /\ Commands!FlattenSeq(s)[1] = s[1][1]
           P == {k \in Nat : \A s \in Seq(Seq(S)) : Len(s) = k + 1 => First(s)}
<1>1. ASSUME NEW s \in Seq(Seq(S)), Len(s) = 1 PROVE First(s)
    <2>1. s[1] \in Seq(S) /\ s = Append(<< >>, s[1]) /\ << >> \in Seq(Seq(S))
        BY <1>1
    <2>2. Commands!FlattenSeq(<< >>) = << >>
        BY DEF Commands!FlattenSeq
    <2>3. Commands!FlattenSeq(s) = << >> \o s[1]
        BY <2>1, <2>2, FlattenAppend
    <2> QED BY <2>1, <2>3
<1>2. ASSUME NEW k \in P PROVE k + 1 \in P
    <2> SUFFICES ASSUME NEW s \in Seq(Seq(S)), Len(s) = (k + 1) + 1, s[1] # << >>
                 PROVE  Commands!FlattenSeq(s) # << >> /\ Commands!FlattenSeq(s)[1] = s[1][1]
        OBVIOUS
    <2>1. PICK front \in Seq(Seq(S)), x \in Seq(S) : s = Append(front, x) /\ Len(s) = Len(front) + 1
        <3>1. s # << >>
            OBVIOUS
        <3> QED BY <3>1, FrontAndLast
    <2>2. Len(front) = k + 1 /\ front[1] = s[1]
        BY <2>1
    <2>3. Commands!FlattenSeq(front) # << >> /\ Commands!FlattenSeq(front)[1] = s[1][1]
        BY <2>1, <2>2
    <2>4. Commands!FlattenSeq(front) \in Seq(S) /\ Commands!FlattenSeq(s) = Commands!FlattenSeq(front) \o x
        BY <2>1, FlattenAppend
    <2> QED BY <2>1, <2>3, <2>4
<1> HIDE DEF P
<1>3. P = Nat
    <2>1. P \in SUBSET Nat /\ 0 \in P
        BY <1>1 DEF P
    <2> QED BY <1>2, <2>1, NumbersInductive
<1> SUFFICES ASSUME NEW s \in Seq(Seq(S)), s # << >> PROVE First(s)
    OBVIOUS
<1>4. Len(s) - 1 \in Nat /\ Len(s) = (Len(s) - 1) + 1
    OBVIOUS
<1>5. Len(s) - 1 \in P
    BY <1>3, <1>4
<1> QED BY <1>4, <1>5 DEF P

-----------------------------------------------------------------------------
(***************************************************************************)
(* Lines of arguments that are told from what they are joined to.          *)
(***************************************************************************)
\* Arguments of the texts C, and places for values.
Kept(C) == {<<t>> : t \in C \ {"ARG"}} \cup {<<"ARG", p>> : p \in C \ {"ARG"}}

LEMMA KeptFacts ==
    ASSUME NEW C, "ARG" \in C, NEW x \in Kept(C)
    PROVE  /\ x \in Seq(C) /\ Len(x) \in {1, 2} /\ x[Len(x)] # "ARG"
           /\ Len(x) = 2 => x[1] = "ARG"
<1>1. ASSUME NEW t \in C \ {"ARG"}, x = <<t>>
      PROVE  x \in Seq(C) /\ Len(x) = 1 /\ x[1] # "ARG"
    BY <1>1
<1>2. ASSUME NEW p \in C \ {"ARG"}, x = <<"ARG", p>>
      PROVE  x \in Seq(C) /\ Len(x) = 2 /\ x[1] = "ARG" /\ x[2] # "ARG"
    BY <1>2
<1>3. (\E t \in C \ {"ARG"} : x = <<t>>) \/ (\E p \in C \ {"ARG"} : x = <<"ARG", p>>)
    BY DEF Kept
<1>4. CASE \E t \in C \ {"ARG"} : x = <<t>>
    <2>1. x \in Seq(C) /\ Len(x) = 1 /\ x[1] # "ARG"
        BY <1>1, <1>4
    <2> QED BY <2>1
<1>5. CASE \E p \in C \ {"ARG"} : x = <<"ARG", p>>
    <2>1. x \in Seq(C) /\ Len(x) = 2 /\ x[1] = "ARG" /\ x[2] # "ARG"
        BY <1>2, <1>5
    <2> QED BY <2>1
<1> QED BY <1>3, <1>4, <1>5

\* What is joined last tells the last argument of the kept ones.
LEMMA KeptLast ==
    ASSUME NEW C, "ARG" \in C, NEW u \in Seq(C), NEW x \in Kept(C)
    PROVE  /\ u \o x \in Seq(C) /\ Len(u \o x) = Len(u) + Len(x)
           /\ u \o x # << >> /\ (u \o x)[Len(u) + Len(x)] = x[Len(x)]
           /\ Len(x) = 2 => (u \o x)[Len(u) + 1] = "ARG"
<1>1. x \in Seq(C) /\ Len(x) \in {1, 2} /\ (Len(x) = 2 => x[1] = "ARG")
    BY KeptFacts
<1>2. /\ u \o x \in Seq(C) /\ Len(u \o x) = Len(u) + Len(x)
      /\ \A i \in 1 .. Len(u) + Len(x) : (u \o x)[i] =
                     IF i <= Len(u) THEN u[i] ELSE x[i - Len(u)]
    BY <1>1, ConcatProperties
<1>3. /\ Len(u) + Len(x) \in 1 .. Len(u) + Len(x) /\ ~(Len(u) + Len(x) <= Len(u))
      /\ Len(u) + 1 \in 1 .. Len(u) + Len(x) /\ ~(Len(u) + 1 <= Len(u))
      /\ (Len(u) + Len(x)) - Len(u) = Len(x) /\ (Len(u) + 1) - Len(u) = 1
    <2>1. \A m \in Nat : \A k \in {1, 2} :
            /\ m + k \in 1 .. m + k /\ ~(m + k <= m) /\ m + 1 \in 1 .. m + k
            /\ ~(m + 1 <= m) /\ (m + k) - m = k /\ (m + 1) - m = 1
        OBVIOUS
    <2>2. Len(u) \in Nat
        OBVIOUS
    <2> QED BY <1>1, <2>1, <2>2
<1>4. u \o x # << >>
    BY <1>1, <1>2
<1> QED BY <1>1, <1>2, <1>3, <1>4

LEMMA KeptEnds ==
    ASSUME NEW C, "ARG" \in C, NEW s \in Seq(Kept(C)), Commands!FlattenSeq(s) # << >>
    PROVE  Commands!FlattenSeq(s)[Len(Commands!FlattenSeq(s))] # "ARG"
<1>1. s # << >>
    BY DEF Commands!FlattenSeq
<1>2. PICK front \in Seq(Kept(C)), x \in Kept(C) : s = Append(front, x)
    BY <1>1, FrontAndLast
<1>3. front \in Seq(Seq(C)) /\ x \in Seq(C)
    BY KeptFacts
<1>4. Commands!FlattenSeq(front) \in Seq(C) /\ Commands!FlattenSeq(s) = Commands!FlattenSeq(front) \o x
    BY <1>2, <1>3, FlattenAppend
<1> QED BY <1>4, KeptFacts, KeptLast

\* Arguments of the same length that end the same sequence are the same.
LEMMA KeptCancel ==
    ASSUME NEW C, "ARG" \in C, NEW u \in Seq(C), NEW r \in Seq(C), NEW x \in Kept(C), NEW y \in Kept(C),
           u \o x = r \o y, Len(x) = Len(y)
    PROVE  u = r /\ x = y
<1>1. x \in Seq(C) /\ y \in Seq(C) /\ Len(x) \in {1, 2}
    BY KeptFacts
<1>2. /\ Len(u \o x) = Len(u) + Len(x) /\ Len(r \o y) = Len(r) + Len(y)
      /\ (u \o x)[Len(u) + Len(x)] = x[Len(x)] /\ (r \o y)[Len(r) + Len(y)] = y[Len(y)]
    BY KeptLast
<1>3. x[Len(x)] = y[Len(y)]
    BY <1>2
<1>4. x = y
    <2>1. Len(x) = 2 => x[1] = y[1]
        BY KeptFacts
    <2>2. \A i \in 1 .. Len(x) : x[i] = y[i]
        <3>1. CASE Len(x) = 1
            BY <1>3, <3>1
        <3>2. CASE Len(x) = 2
            BY <1>3, <2>1, <3>2
        <3> QED BY <1>1, <3>1, <3>2
    <2> QED BY <1>1, <2>2, SeqEqual
<1> QED BY <1>1, <1>4, ConcatSimplifications

\* Such arguments can be told from what they are joined to.
LEMMA KeptDecoded ==
    ASSUME NEW C, "ARG" \in C, NEW s \in Seq(Kept(C)), NEW t \in Seq(Kept(C)), Commands!FlattenSeq(s) = Commands!FlattenSeq(t)
    PROVE  s = t
<1> DEFINE P == {k \in Nat : \A v, w \in Seq(Kept(C)) :
                              Len(v) = k /\ Commands!FlattenSeq(v) = Commands!FlattenSeq(w) => v = w}
<1>1. ASSUME NEW v \in Seq(Kept(C)), v # << >>
      PROVE  \E front \in Seq(Kept(C)), x \in Kept(C) :
                /\ v = Append(front, x) /\ Len(v) = Len(front) + 1
                /\ Commands!FlattenSeq(front) \in Seq(C) /\ Commands!FlattenSeq(v) = Commands!FlattenSeq(front) \o x
    <2>1. PICK front \in Seq(Kept(C)), x \in Kept(C) : v = Append(front, x) /\ Len(v) = Len(front) + 1
        BY <1>1, FrontAndLast
    <2>2. front \in Seq(Seq(C)) /\ x \in Seq(C)
        BY KeptFacts
    <2> QED BY <2>1, <2>2, FlattenAppend
<1>2. Commands!FlattenSeq(<< >>) = << >>
    BY DEF Commands!FlattenSeq
<1>3. ASSUME NEW v \in Seq(Kept(C)), v # << >> PROVE Commands!FlattenSeq(v) # << >>
    BY <1>1, <1>3, KeptLast
<1>4. 0 \in P
    BY <1>2, <1>3
<1>6. ASSUME NEW u \in Seq(C), NEW w \in Seq(Kept(C)), Commands!FlattenSeq(w) \in Seq(C),
             NEW x \in Kept(C), NEW y \in Kept(C), u \o x = Commands!FlattenSeq(w) \o y, Len(x) = 2, Len(y) = 1
      PROVE  FALSE
    <2>1. /\ Len(Commands!FlattenSeq(w)) = Len(u) + 1 /\ (Commands!FlattenSeq(w) \o y)[Len(u) + 1] = "ARG"
        <3>1. /\ Len(u \o x) = Len(u) + 2 /\ (u \o x)[Len(u) + 1] = "ARG"
              /\ Len(u \o x) = Len(Commands!FlattenSeq(w)) + 1
            BY <1>6, KeptLast
        <3>2. Len(u) \in Nat /\ Len(Commands!FlattenSeq(w)) \in Nat
            BY <1>6
        <3> QED BY <1>6, <3>1, <3>2
    <2>2. y \in Seq(C)
        BY KeptFacts
    <2>3. Commands!FlattenSeq(w)[Len(u) + 1] = "ARG"
        <3>1. Len(u) + 1 \in 1 .. Len(Commands!FlattenSeq(w)) + Len(y) /\ Len(u) + 1 <= Len(Commands!FlattenSeq(w))
            BY <1>6, <2>1
        <3> QED BY <1>6, <2>1, <2>2, <3>1, ConcatProperties
    <2>4. Commands!FlattenSeq(w) # << >>
        BY <1>6, <2>1
    <2> QED BY <2>1, <2>3, <2>4, KeptEnds
<1>7. ASSUME NEW k \in P PROVE k + 1 \in P
    <2> SUFFICES ASSUME NEW v \in Seq(Kept(C)), NEW w \in Seq(Kept(C)), Len(v) = k + 1,
                        Commands!FlattenSeq(v) = Commands!FlattenSeq(w)
                 PROVE  v = w
        OBVIOUS
    <2>1. v # << >> /\ w # << >>
        BY <1>2, <1>3
    <2>2. PICK a \in Seq(Kept(C)), x \in Kept(C) :
              /\ v = Append(a, x) /\ Len(v) = Len(a) + 1
              /\ Commands!FlattenSeq(a) \in Seq(C) /\ Commands!FlattenSeq(v) = Commands!FlattenSeq(a) \o x
        BY <1>1, <2>1
    <2>3. PICK b \in Seq(Kept(C)), y \in Kept(C) :
              /\ w = Append(b, y)
              /\ Commands!FlattenSeq(b) \in Seq(C) /\ Commands!FlattenSeq(w) = Commands!FlattenSeq(b) \o y
        BY <1>1, <2>1
    <2>4. Commands!FlattenSeq(a) \o x = Commands!FlattenSeq(b) \o y
        BY <2>2, <2>3
    <2>5. Len(x) = Len(y)
        <3>1. Len(x) \in {1, 2} /\ Len(y) \in {1, 2}
            BY KeptFacts
        <3>2. ~(Len(x) = 2 /\ Len(y) = 1)
            BY <1>6, <2>2, <2>3, <2>4
        <3>3. ~(Len(x) = 1 /\ Len(y) = 2)
            BY <1>6, <2>2, <2>3, <2>4
        <3> QED BY <3>1, <3>2, <3>3
    <2>6. Commands!FlattenSeq(a) = Commands!FlattenSeq(b) /\ x = y
        <3> HIDE DEF P
        <3>1. Commands!FlattenSeq(a) \in Seq(C) /\ Commands!FlattenSeq(b) \in Seq(C)
            BY <2>2, <2>3
        <3> DEFINE fa == Commands!FlattenSeq(a)
                   fb == Commands!FlattenSeq(b)
        <3>2. fa \in Seq(C) /\ fb \in Seq(C) /\ fa \o x = fb \o y
            BY <2>4, <3>1
        <3> HIDE DEF fa, fb
        <3>3. fa = fb /\ x = y
            BY <2>5, <3>2, KeptCancel
        <3> QED BY <3>3 DEF fa, fb
    <2>7. a = b
        BY <2>2, <2>6
    <2> QED BY <2>2, <2>3, <2>6, <2>7
<1> HIDE DEF P
<1>8. P = Nat
    <2>1. P \in SUBSET Nat
        BY DEF P
    <2> QED BY <1>4, <1>7, <2>1, NumbersInductive
<1> QED BY <1>8 DEF P

-----------------------------------------------------------------------------
(***************************************************************************)
(* The lines of the families.                                              *)
(***************************************************************************)
\* The texts that the charm puts into command lines, and the ones that are asked for; the
\* families that give their values as $ARGn$ take the first only.
OwnTexts == Commands!Own \cup {c.check_timeout : c \in CheckConfigs}

AskedTexts ==
    {e.command : e \in Extras["nrpe"]}
      \cup {e.rpc_command : e \in Extras["rpc"]} \cup {e.program_version : e \in Extras["rpc"]}
      \cup UNION {{e.port, e.string, e.expect, e.warning, e.critical, e.timeout} : e \in Extras["tcp"]}

WithPlaces == {"http", "mysql", "pgsql"}

Arguments(family) ==
    IF family \in WithPlaces THEN Kept(OwnTexts) ELSE {<<t>> : t \in OwnTexts \cup AskedTexts}

IsLine(family, line) ==
    line \in Seq(Arguments(family)) /\ line # << >> /\ line[1] = Commands!Plugin(family)

\* A line on which k values have been given at most.
IsDraft(family, k, draftLine) ==
    \E V, cmd_args : \E args \in Seq(V) :
        /\ draftLine = [args |-> args, cmd_args |-> cmd_args]
        /\ Len(args) <= k /\ IsLine(family, cmd_args)

LEMMA ArgIsKept == ASSUME NEW n \in 1 .. 4 PROVE Commands!Arg(n) \in Kept(OwnTexts)
<1>1. Commands!Places[n] \in {"1", "2", "3", "4"}
    <2>1. n \in {1, 2, 3, 4}
        OBVIOUS
    <2> QED BY <2>1 DEF Commands!Places
<1>2. Commands!Places[n] \in OwnTexts /\ Commands!Places[n] # "ARG"
    BY <1>1 DEF OwnTexts, Commands!Own
<1> QED BY <1>2 DEF Commands!Arg, Kept

LEMMA OwnIsArgument ==
    ASSUME NEW f, NEW t \in OwnTexts, t # "ARG"
    PROVE  <<t>> \in Arguments(f)
BY DEF Arguments, Kept

LEMMA SwitchIsArgument ==
    ASSUME NEW f,
           NEW t \in {"-2", "-c", "-C", "-e", "-E", "-H", "-I", "-p", "-s", "-t", "-u", "-w", "$HOSTADDRESS$"}
    PROVE  <<t>> \in Arguments(f)
<1>1. t \in OwnTexts /\ t # "ARG"
    BY DEF OwnTexts, Commands!Own
<1> QED BY <1>1, OwnIsArgument

LEMMA PluginIsArgument ==
    ASSUME NEW f \in DOMAIN Commands!Plugins
    PROVE  Commands!Plugin(f) \in Arguments(f)
<1>1. Commands!Plugins[f] \in OwnTexts
    BY DEF OwnTexts, Commands!Own
<1>2. Commands!Plugins[f] # "ARG"
    BY DEF Commands!Plugins
<1> QED BY <1>1, <1>2, OwnIsArgument DEF Commands!Plugin

LEMMA OptionIsArguments ==
    ASSUME NEW f, NEW switch, <<switch>> \in Arguments(f), NEW value,
           value # NoText => <<value>> \in Arguments(f)
    PROVE  Commands!Option(switch, value) \in Seq(Arguments(f))
BY DEF Commands!Option

LEMMA JoinedLine ==
    ASSUME NEW f, NEW L, IsLine(f, L), NEW M \in Seq(Arguments(f))
    PROVE  IsLine(f, L \o M)
BY ConcatProperties DEF IsLine

LEMMA DraftAnd ==
    ASSUME NEW f, NEW k, NEW line, IsDraft(f, k, line), NEW more \in Seq(Arguments(f))
    PROVE  IsDraft(f, k, Commands!And(line, more))
<1>1. PICK V, cmd_args : \E args \in Seq(V) :
          /\ line = [args |-> args, cmd_args |-> cmd_args]
          /\ Len(args) <= k /\ IsLine(f, cmd_args)
    BY DEF IsDraft
<1>2. PICK args \in Seq(V) :
          /\ line = [args |-> args, cmd_args |-> cmd_args]
          /\ Len(args) <= k /\ IsLine(f, cmd_args)
    BY <1>1
<1>3. Commands!And(line, more) = [args |-> args, cmd_args |-> cmd_args \o more]
    <2>1. \A a, c, d : [[args |-> a, cmd_args |-> c] EXCEPT !.cmd_args = d] = [args |-> a, cmd_args |-> d]
        OBVIOUS
    <2>2. line.cmd_args = cmd_args
        BY <1>2
    <2>3. Commands!And(line, more) = [line EXCEPT !.cmd_args = cmd_args \o more]
        BY <2>2, Zenon DEF Commands!And
    <2> QED BY <1>2, <2>1, <2>3, Zenon
<1>4. IsLine(f, cmd_args \o more)
    BY <1>2, JoinedLine
<1> QED BY <1>2, <1>3, <1>4 DEF IsDraft

LEMMA DraftExtended ==
    ASSUME NEW f \in WithPlaces, NEW k \in 0 .. 3, NEW line, IsDraft(f, k, line),
           NEW switch, <<switch>> \in Arguments(f), NEW value
    PROVE  IsDraft(f, k + 1, Commands!Extended(line, switch, value))
<1>1. PICK V, cmd_args : \E args \in Seq(V) :
          /\ line = [args |-> args, cmd_args |-> cmd_args]
          /\ Len(args) <= k /\ IsLine(f, cmd_args)
    BY DEF IsDraft
<1>2. PICK args \in Seq(V) :
          /\ line = [args |-> args, cmd_args |-> cmd_args]
          /\ Len(args) <= k /\ IsLine(f, cmd_args)
    BY <1>1
<1>3. CASE value = NoText
    <2>1. Len(args) <= k + 1
        BY <1>2
    <2> QED BY <1>2, <1>3, <2>1 DEF Commands!Extended, IsDraft
<1>4. CASE value # NoText
    <2> DEFINE given == Append(args, value)
               joined == cmd_args \o << <<switch>>, Commands!Arg(Len(args) + 1)>>
    <2>1. given \in Seq(V \cup {value}) /\ Len(given) <= k + 1 /\ Len(args) + 1 \in 1 .. 4
        BY <1>2
    <2>2. Commands!Arg(Len(args) + 1) \in Arguments(f)
        BY <2>1, ArgIsKept DEF Arguments
    <2>3. << <<switch>>, Commands!Arg(Len(args) + 1)>> \in Seq(Arguments(f))
        BY <2>2
    <2>4. IsLine(f, joined)
        BY <1>2, <2>3, JoinedLine
    <2>5. Commands!Extended(line, switch, value) = [args |-> given, cmd_args |-> joined]
        BY <1>2, <1>4 DEF Commands!Extended
    <2> HIDE DEF given, joined
    <2> QED BY <2>1, <2>4, <2>5 DEF IsDraft
<1> QED BY <1>3, <1>4

LEMMA PlainDraft ==
    ASSUME NEW f \in DOMAIN Commands!Plugins
    PROVE  IsDraft(f, 0, Commands!Plain(f))
<1> DEFINE L == <<Commands!Plugin(f), <<"-H">>, Commands!HostAddress>>
<1>1. Commands!Plugin(f) \in Arguments(f) /\ <<"-H">> \in Arguments(f) /\ Commands!HostAddress \in Arguments(f)
    BY PluginIsArgument, SwitchIsArgument DEF Commands!HostAddress
<1>2. IsLine(f, L)
    BY <1>1 DEF IsLine
<1>3. << >> \in Seq({}) /\ Len(<< >>) <= 0
    OBVIOUS
<1> HIDE DEF L
<1> QED BY <1>2, <1>3 DEF IsDraft, Commands!Plain, L

LEMMA HttpDraft ==
    ASSUME NEW extra PROVE IsDraft("http", 4, Commands!customize_http(extra))
<1> DEFINE L == <<Commands!Plugin("http"), <<"-p">>, Commands!Arg(1), <<"-u">>, Commands!Arg(2)>>
           first == [args |-> <<extra.port, extra.path>>, cmd_args |-> L]
           status == Commands!Extended(first, "-e", extra.status)
           host == Commands!Extended(status, "-H", extra.host)
           A == Arguments("http")
<1>1. /\ Commands!Plugin("http") \in A /\ Commands!Arg(1) \in A /\ Commands!Arg(2) \in A
      /\ <<"-p">> \in A /\ <<"-u">> \in A /\ <<"-e">> \in A /\ <<"-H">> \in A /\ <<"-I">> \in A
      /\ Commands!HostAddress \in A
    <2>1. "http" \in DOMAIN Commands!Plugins
        BY DEF Commands!Plugins
    <2>2. Commands!Arg(1) \in A /\ Commands!Arg(2) \in A
        BY ArgIsKept DEF Arguments, WithPlaces
    <2> HIDE DEF A
    <2>3. Commands!Plugin("http") \in A
        BY <2>1, PluginIsArgument DEF A
    <2>4. /\ <<"-p">> \in A /\ <<"-u">> \in A /\ <<"-e">> \in A /\ <<"-H">> \in A /\ <<"-I">> \in A
          /\ <<"$HOSTADDRESS$">> \in A
        BY SwitchIsArgument DEF A
    <2> QED BY <2>2, <2>3, <2>4 DEF Commands!HostAddress
<1> HIDE DEF A
<1>2. IsLine("http", L)
    BY <1>1 DEF IsLine, A
<1>3. IsDraft("http", 2, first)
    <2>1. <<extra.port, extra.path>> \in Seq({extra.port, extra.path}) /\ Len(<<extra.port, extra.path>>) <= 2
        OBVIOUS
    <2> HIDE DEF L
    <2> QED BY <1>2, <2>1 DEF IsDraft
<1> HIDE DEF first
<1>4. IsDraft("http", 3, status)
    <2>1. "http" \in WithPlaces /\ 2 \in 0 .. 3 /\ 2 + 1 = 3
        BY DEF WithPlaces
    <2> QED BY <1>1, <1>3, <2>1, DraftExtended DEF A
<1> HIDE DEF status
<1>5. IsDraft("http", 4, host)
    <2>1. "http" \in WithPlaces /\ 3 \in 0 .. 3 /\ 3 + 1 = 4
        BY DEF WithPlaces
    <2> QED BY <1>1, <1>4, <2>1, DraftExtended DEF A
<1> HIDE DEF host
<1>6. IsDraft("http", 4, status)
    BY <1>4 DEF IsDraft
<1>7. CASE extra.host = NoText
    <2>1. Commands!customize_http(extra) = Commands!And(status, << <<"-H">>, Commands!HostAddress>>)
        BY <1>7 DEF Commands!customize_http, status, first
    <2>2. << <<"-H">>, Commands!HostAddress>> \in Seq(A)
        BY <1>1
    <2> QED BY <1>6, <2>1, <2>2, DraftAnd DEF A
<1>8. CASE extra.host # NoText
    <2>1. Commands!customize_http(extra) = Commands!And(host, << <<"-I">>, Commands!HostAddress>>)
        BY <1>8 DEF Commands!customize_http, host, status, first
    <2>2. << <<"-I">>, Commands!HostAddress>> \in Seq(A)
        BY <1>1
    <2> QED BY <1>5, <2>1, <2>2, DraftAnd DEF A
<1> QED BY <1>7, <1>8

LEMMA MysqlDraft ==
    ASSUME NEW extra PROVE IsDraft("mysql", 4, Commands!customize_mysql(extra))
<1> DEFINE plain == Commands!Plain("mysql")
           user == Commands!Extended(plain, "-u", extra.user)
<1>1. "mysql" \in WithPlaces /\ "mysql" \in DOMAIN Commands!Plugins
    BY DEF WithPlaces, Commands!Plugins
<1>2. <<"-u">> \in Arguments("mysql") /\ <<"-p">> \in Arguments("mysql")
    BY SwitchIsArgument
<1>3. IsDraft("mysql", 0, plain)
    BY <1>1, PlainDraft
<1> HIDE DEF plain
<1>4. IsDraft("mysql", 1, user)
    <2>1. 0 \in 0 .. 3 /\ 0 + 1 = 1
        OBVIOUS
    <2> QED BY <1>1, <1>2, <1>3, <2>1, DraftExtended
<1> HIDE DEF user
<1>5. IsDraft("mysql", 2, Commands!Extended(user, "-p", extra.password))
    <2>1. 1 \in 0 .. 3 /\ 1 + 1 = 2
        OBVIOUS
    <2> QED BY <1>1, <1>2, <1>4, <2>1, DraftExtended
<1>6. IsDraft("mysql", 2, Commands!customize_mysql(extra))
    BY <1>5 DEF Commands!customize_mysql, user, plain
<1> QED BY <1>6 DEF IsDraft

LEMMA NrpeDraft ==
    ASSUME NEW name, NEW extra \in Extras["nrpe"]
    PROVE  IsDraft("nrpe", 4, Commands!customize_nrpe(name, extra))
<1> DEFINE A == Arguments("nrpe")
           asked == IF name \in DOMAIN Commands!OwnCommands THEN Commands!OwnCommands[name] ELSE extra.command
           two == IF config.nrpe_packet_version = 2 THEN << <<"-2">> >> ELSE << >>
<1>1. "nrpe" \in DOMAIN Commands!Plugins
    BY DEF Commands!Plugins
<1>2. <<asked>> \in A
    <2>1. ASSUME name \in DOMAIN Commands!OwnCommands
          PROVE  Commands!OwnCommands[name] \in OwnTexts
        BY <2>1 DEF OwnTexts, Commands!Own
    <2>2. extra.command \in AskedTexts
        BY DEF AskedTexts
    <2>3. A = {<<t>> : t \in OwnTexts \cup AskedTexts}
        BY DEF Arguments, WithPlaces
    <2> QED BY <2>1, <2>2, <2>3
<1>3. two \in Seq(A)
    BY SwitchIsArgument
<1>4. Commands!Option("-c", asked) \in Seq(A)
    <2>1. <<"-c">> \in A
        BY SwitchIsArgument
    <2> HIDE DEF A, asked
    <2> QED BY <1>2, <2>1, OptionIsArguments DEF A
<1>5. IsDraft("nrpe", 4, Commands!Plain("nrpe"))
    <2>1. IsDraft("nrpe", 0, Commands!Plain("nrpe"))
        BY <1>1, PlainDraft
    <2> QED BY <2>1 DEF IsDraft
<1>6. two \o Commands!Option("-c", asked) \in Seq(A)
    BY <1>3, <1>4, ConcatProperties
<1>7. Commands!customize_nrpe(name, extra) = Commands!And(Commands!Plain("nrpe"), two \o Commands!Option("-c", asked))
    BY DEF Commands!customize_nrpe
<1> HIDE DEF two, asked
<1> QED BY <1>5, <1>6, <1>7, DraftAnd

LEMMA AskedIsArgument ==
    ASSUME NEW f, f \notin WithPlaces, NEW t \in AskedTexts PROVE <<t>> \in Arguments(f)
BY DEF Arguments

LEMMA RpcDraft ==
    ASSUME NEW extra \in Extras["rpc"] PROVE IsDraft("rpc", 4, Commands!customize_rpc(extra))
<1> DEFINE A == Arguments("rpc")
           c == Commands!Option("-C", extra.rpc_command)
           v == Commands!Option("-c", extra.program_version)
<1>1. "rpc" \in DOMAIN Commands!Plugins /\ "rpc" \notin WithPlaces
    BY DEF Commands!Plugins, WithPlaces
<1>2. extra.rpc_command \in AskedTexts /\ extra.program_version \in AskedTexts
    BY DEF AskedTexts
<1>3. <<"-C">> \in A /\ <<"-c">> \in A
    BY SwitchIsArgument
<1>4. <<extra.rpc_command>> \in A /\ <<extra.program_version>> \in A
    BY <1>1, <1>2, AskedIsArgument
<1> HIDE DEF A
<1>5. c \in Seq(A) /\ v \in Seq(A)
    BY <1>3, <1>4, OptionIsArguments DEF A
<1>6. IsDraft("rpc", 4, Commands!Plain("rpc"))
    <2>1. IsDraft("rpc", 0, Commands!Plain("rpc"))
        BY <1>1, PlainDraft
    <2> QED BY <2>1 DEF IsDraft
<1>7. Commands!customize_rpc(extra) = Commands!And(Commands!Plain("rpc"), c \o v)
    BY DEF Commands!customize_rpc
<1> HIDE DEF c, v
<1>8. c \o v \in Seq(A)
    BY <1>5, ConcatProperties
<1> QED BY <1>6, <1>7, <1>8, DraftAnd DEF A

LEMMA TcpDraft ==
    ASSUME NEW extra \in Extras["tcp"] PROVE IsDraft("tcp", 4, Commands!customize_tcp(extra))
<1> DEFINE A == Arguments("tcp")
           E == << <<"-E">> >>
           p == Commands!Option("-p", extra.port)
           s == Commands!Option("-s", extra.string)
           e == Commands!Option("-e", extra.expect)
           w == Commands!Option("-w", extra.warning)
           c == Commands!Option("-c", extra.critical)
           t == Commands!Option("-t", extra.timeout)
<1>1. "tcp" \in DOMAIN Commands!Plugins /\ "tcp" \notin WithPlaces
    BY DEF Commands!Plugins, WithPlaces
<1>2. {extra.port, extra.string, extra.expect, extra.warning, extra.critical, extra.timeout} \subseteq AskedTexts
    BY DEF AskedTexts
<1>3. /\ <<"-E">> \in A /\ <<"-p">> \in A /\ <<"-s">> \in A /\ <<"-e">> \in A /\ <<"-w">> \in A
      /\ <<"-c">> \in A /\ <<"-t">> \in A
    BY SwitchIsArgument
<1>4. /\ <<extra.port>> \in A /\ <<extra.string>> \in A /\ <<extra.expect>> \in A
      /\ <<extra.warning>> \in A /\ <<extra.critical>> \in A /\ <<extra.timeout>> \in A
    BY <1>1, <1>2, AskedIsArgument
<1> HIDE DEF A
<1>5. /\ p \in Seq(A) /\ s \in Seq(A) /\ e \in Seq(A) /\ w \in Seq(A) /\ c \in Seq(A) /\ t \in Seq(A)
      /\ E \in Seq(A)
    <2>1. ASSUME NEW switch, <<switch>> \in A, NEW value, <<value>> \in A
          PROVE  Commands!Option(switch, value) \in Seq(A)
        BY <2>1, OptionIsArguments DEF A
    <2>2. p \in Seq(A) /\ s \in Seq(A)
        BY <1>3, <1>4, <2>1
    <2>3. e \in Seq(A) /\ w \in Seq(A)
        BY <1>3, <1>4, <2>1
    <2>4. c \in Seq(A) /\ t \in Seq(A)
        BY <1>3, <1>4, <2>1
    <2>5. E \in Seq(A)
        BY <1>3
    <2> QED BY <2>2, <2>3, <2>4, <2>5
<1>6. IsDraft("tcp", 4, Commands!Plain("tcp"))
    <2>1. IsDraft("tcp", 0, Commands!Plain("tcp"))
        BY <1>1, PlainDraft
    <2> QED BY <2>1 DEF IsDraft
<1>7. Commands!customize_tcp(extra) = Commands!And(Commands!Plain("tcp"), E \o p \o s \o e \o w \o c \o t)
    BY DEF Commands!customize_tcp
<1> HIDE DEF E, p, s, e, w, c, t
<1>8. E \o p \o s \o e \o w \o c \o t \in Seq(A)
    BY <1>5, ConcatProperties
<1> QED BY <1>6, <1>7, <1>8, DraftAnd DEF A

\* The lines of a family start with its plugin and have its arguments only.
LEMMA LineIsLine ==
    ASSUME config \in CheckConfigs, NEW name, NEW f \in DOMAIN Extras, NEW extra \in Extras[f]
    PROVE  f \in DOMAIN Commands!Plugins /\ IsLine(f, Commands!Line(name, f, extra).cmd_args)
<1> DEFINE draftLine == Commands!Customized(name, f, extra)
           more == IF f = "rpc" THEN << >> ELSE Commands!Option("-t", config.check_timeout)
<1>1. f \in DOMAIN Commands!Plugins /\ f \in {"http", "mysql", "pgsql", "nrpe", "rpc", "tcp"}
    BY CommandAssumption DEF Commands!Plugins
<1>2. IsDraft(f, 4, draftLine)
    <2>1. CASE f = "http"
        BY <2>1, HttpDraft DEF Commands!Customized
    <2>2. CASE f = "mysql"
        BY <2>2, MysqlDraft DEF Commands!Customized
    <2>3. CASE f = "pgsql"
        <3>1. IsDraft(f, 0, Commands!Plain(f))
            BY <1>1, PlainDraft
        <3>2. draftLine = Commands!Plain(f)
            BY <2>3 DEF Commands!Customized, Commands!customize_pgsql
        <3> QED BY <3>1, <3>2 DEF IsDraft
    <2>4. CASE f = "nrpe"
        BY <2>4, NrpeDraft DEF Commands!Customized
    <2>5. CASE f = "rpc"
        BY <2>5, RpcDraft DEF Commands!Customized
    <2>6. CASE f = "tcp"
        BY <2>6, TcpDraft DEF Commands!Customized
    <2> QED BY <1>1, <2>1, <2>2, <2>3, <2>4, <2>5, <2>6
<1>3. more \in Seq(Arguments(f))
    <2>1. config.check_timeout \in OwnTexts /\ config.check_timeout # "ARG"
        BY CommandAssumption DEF OwnTexts
    <2>2. <<config.check_timeout>> \in Arguments(f) /\ <<"-t">> \in Arguments(f)
        BY <2>1, OwnIsArgument, SwitchIsArgument
    <2>3. Commands!Option("-t", config.check_timeout) \in Seq(Arguments(f))
        BY <2>2, OptionIsArguments
    <2> QED BY <2>3
<1>4. Commands!Line(name, f, extra) = Commands!And(draftLine, more)
    BY DEF Commands!Line
<1> HIDE DEF draftLine, more
<1>5. IsDraft(f, 4, Commands!Line(name, f, extra))
    BY <1>2, <1>3, <1>4, DraftAnd
<1> QED BY <1>1, <1>5 DEF IsDraft

-----------------------------------------------------------------------------
(***************************************************************************)
(* Signatures.                                                             *)
(***************************************************************************)
\* The arguments of a line as they are in its signature.
InSignature(line) == [i \in 1 .. Len(line) |-> Commands!Reduced(line[i])]

ReducedTexts == OwnTexts \cup AskedTexts \cup Commands!Remains

LEMMA OwnTextsStay ==
    ASSUME NEW t \in OwnTexts PROVE Commands!Reduced(<<t>>) = <<t>>
<1>1. t \notin DOMAIN Spelled
    BY CommandAssumption DEF OwnTexts
<1> QED BY <1>1 DEF Commands!Reduced

LEMMA KeptStays ==
    ASSUME NEW x \in Kept(OwnTexts) PROVE Commands!Reduced(x) = x /\ x \in Seq(OwnTexts)
<1>1. "ARG" \in OwnTexts
    BY DEF OwnTexts, Commands!Own
<1>2. ASSUME NEW p, x = <<"ARG", p>> PROVE Commands!Reduced(x) = x
    BY <1>2 DEF Commands!Reduced
<1>3. Commands!Reduced(x) = x
    BY <1>2, OwnTextsStay DEF Kept
<1> QED BY <1>1, <1>3, KeptFacts

LEMMA ReducedIsTexts ==
    ASSUME NEW t \in OwnTexts \cup AskedTexts
    PROVE  Commands!Reduced(<<t>>) \in Seq(ReducedTexts)
<1>1. CASE t \in DOMAIN Spelled
    <2>1. Spelled[t] \in Seq(Commands!Remains)
        BY <1>1, CommandAssumption
    <2>2. Spelled[t] \in Seq(ReducedTexts)
        BY <2>1 DEF ReducedTexts
    <2> QED BY <1>1, <2>2 DEF Commands!Reduced
<1>2. CASE t \notin DOMAIN Spelled
    <2>1. t \in ReducedTexts
        BY DEF ReducedTexts
    <2> QED BY <1>2, <2>1 DEF Commands!Reduced
<1> QED BY <1>1, <1>2

LEMMA LineInSignature ==
    ASSUME NEW f \in DOMAIN Commands!Plugins, NEW L, IsLine(f, L)
    PROVE  /\ InSignature(L) \in Seq(Seq(ReducedTexts)) /\ InSignature(L) # << >>
           /\ InSignature(L)[1] = Commands!Plugin(f) /\ L[1] = Commands!Plugin(f)
           /\ f \in WithPlaces => InSignature(L) = L
<1>1. L \in Seq(Arguments(f)) /\ Len(L) \in Nat \ {0} /\ L[1] = Commands!Plugin(f) /\ 1 \in 1 .. Len(L)
    BY DEF IsLine
<1>2. ASSUME NEW x \in Arguments(f)
      PROVE  Commands!Reduced(x) \in Seq(ReducedTexts) /\ (f \in WithPlaces => Commands!Reduced(x) = x)
    <2>1. CASE f \in WithPlaces
        <3>1. Commands!Reduced(x) = x /\ x \in Seq(OwnTexts)
            BY <2>1, KeptStays DEF Arguments
        <3>2. x \in Seq(ReducedTexts)
            BY <3>1 DEF ReducedTexts
        <3> QED BY <3>1, <3>2
    <2>2. CASE f \notin WithPlaces
        <3>1. PICK t \in OwnTexts \cup AskedTexts : x = <<t>>
            BY <2>2 DEF Arguments
        <3> QED BY <2>2, <3>1, ReducedIsTexts
    <2> QED BY <2>1, <2>2
<1>3. \A i \in 1 .. Len(L) : L[i] \in Arguments(f)
    BY <1>1
<1>4. \A i \in 1 .. Len(L) : Commands!Reduced(L[i]) \in Seq(ReducedTexts)
    BY <1>2, <1>3
<1>5. InSignature(L) \in Seq(Seq(ReducedTexts)) /\ Len(InSignature(L)) = Len(L)
    BY <1>1, <1>4 DEF InSignature
<1>6. InSignature(L)[1] = Commands!Reduced(Commands!Plugin(f))
    BY <1>1 DEF InSignature
<1>7. Commands!Reduced(Commands!Plugin(f)) = Commands!Plugin(f)
    <2>1. Commands!Plugins[f] \in OwnTexts
        BY DEF OwnTexts, Commands!Own
    <2> QED BY <2>1, OwnTextsStay DEF Commands!Plugin
<1>8. ASSUME f \in WithPlaces PROVE InSignature(L) = L
    <2>1. \A i \in 1 .. Len(L) : Commands!Reduced(L[i]) = L[i]
        BY <1>2, <1>3, <1>8
    <2> QED BY <1>1, <2>1 DEF InSignature
<1> QED BY <1>1, <1>5, <1>6, <1>7, <1>8

\* A signature tells the family of a line, and with values in places the line.
LEMMA SignatureTells ==
    ASSUME NEW f \in DOMAIN Commands!Plugins, NEW g \in DOMAIN Commands!Plugins,
           NEW L, NEW M, IsLine(f, L), IsLine(g, M),
           Commands!signature(L) = Commands!signature(M)
    PROVE  f = g /\ L[1] = M[1] /\ (f \in WithPlaces => L = M)
<1> DEFINE P == InSignature(L)
           Q == InSignature(M)
<1>1. Commands!FlattenSeq(P) = Commands!FlattenSeq(Q)
    BY DEF Commands!signature, InSignature
<1>2. /\ P \in Seq(Seq(ReducedTexts)) /\ P # << >> /\ P[1] = Commands!Plugin(f)
      /\ Q \in Seq(Seq(ReducedTexts)) /\ Q # << >> /\ Q[1] = Commands!Plugin(g)
      /\ L[1] = Commands!Plugin(f) /\ M[1] = Commands!Plugin(g)
      /\ (f \in WithPlaces => P = L) /\ (g \in WithPlaces => Q = M)
    BY LineInSignature
<1> HIDE DEF P, Q
<1>3. Commands!FlattenSeq(P)[1] = Commands!Plugins[f] /\ Commands!FlattenSeq(Q)[1] = Commands!Plugins[g]
    <2>1. P[1] # << >> /\ Q[1] # << >> /\ P[1][1] = Commands!Plugins[f] /\ Q[1][1] = Commands!Plugins[g]
        BY <1>2 DEF Commands!Plugin
    <2> QED BY <1>2, <2>1, FlattenFirst
<1>4. f = g
    BY <1>1, <1>3 DEF Commands!Plugins
<1>5. ASSUME f \in WithPlaces PROVE L = M
    <2>1. L \in Seq(Kept(OwnTexts)) /\ M \in Seq(Kept(OwnTexts))
        BY <1>4, <1>5 DEF IsLine, Arguments
    <2>2. Commands!FlattenSeq(L) = Commands!FlattenSeq(M)
        BY <1>1, <1>2, <1>4, <1>5
    <2>3. "ARG" \in OwnTexts
        BY DEF OwnTexts, Commands!Own
    <2> QED BY <2>1, <2>2, <2>3, KeptDecoded
<1> QED BY <1>2, <1>4, <1>5

-----------------------------------------------------------------------------
(***************************************************************************)
(* The invariant.                                                          *)
(***************************************************************************)
\* Every command is the line of a family under its signature, one line each, and every check
\* has a command that does what the check is meant to do.
CommandsInv ==
    /\ config \in CheckConfigs
    /\ \A pair \in commands : /\ pair = <<Commands!signature(pair[2]), pair[2]>>
                              /\ \E f \in DOMAIN Commands!Plugins : IsLine(f, pair[2])
    /\ \A pair, other \in commands : pair[1] = other[1] => pair = other
    /\ \A n \in Monitors : services[n] # NoService =>
          \E pair \in commands :
            /\ pair[1] = services[n].sig
            /\ services[n].family \in WithPlaces =>
                  Commands!Expanded(pair[2], services[n].args) = services[n].meant
            /\ Commands!Expanded(pair[2], services[n].args)[1] = services[n].meant[1]

LEMMA ExpandedFirst ==
    ASSUME NEW f, NEW L, IsLine(f, L), NEW args
    PROVE  Commands!Expanded(L, args)[1] = L[1]
<1>1. L \in Seq(Arguments(f)) /\ 1 \in 1 .. Len(L) /\ Len(L[1]) = 1
    BY DEF IsLine, Commands!Plugin
<1> QED BY <1>1 DEF Commands!Expanded

LEMMA CommandsNext == CommandsInv /\ [Commands!Next]_Commands!vars => CommandsInv'
<1> SUFFICES ASSUME CommandsInv, [Commands!Next]_Commands!vars PROVE CommandsInv'
    OBVIOUS
<1>1. ASSUME NEW n \in Monitors, NEW f \in DOMAIN Extras, NEW extra \in Extras[f],
             Commands!customize_service(n, f, extra)
      PROVE  CommandsInv'
    <2> DEFINE made == Commands!Line(n, f, extra)
               L == made.cmd_args
               sig == Commands!signature(L)
               check == [family |-> f, sig |-> sig, args |-> made.args,
                         meant |-> Commands!Expanded(L, made.args)]
    <2>1. f \in DOMAIN Commands!Plugins /\ IsLine(f, L) /\ config' \in CheckConfigs
        BY <1>1, LineIsLine DEF CommandsInv, Commands!customize_service
    <2>2. /\ commands' = IF sig \in Commands!Signed THEN commands ELSE commands \cup {<<sig, L>>}
          /\ services' = [services EXCEPT ![n] = check]
        BY <1>1 DEF Commands!customize_service
    <2> HIDE DEF made
    <2> HIDE DEF L, sig
    <2>3. CommandsInv!2'
        BY <2>1, <2>2 DEF CommandsInv, sig
    <2>4. CommandsInv!3'
        BY <2>2 DEF CommandsInv, Commands!Signed
    <2>5. commands \subseteq commands'
        BY <2>2
    <2>6. PICK pair \in commands' : pair[1] = sig
        <3>1. CASE sig \in Commands!Signed
            BY <2>2, <3>1 DEF Commands!Signed
        <3>2. CASE sig \notin Commands!Signed
            <4>1. <<sig, L>> \in commands' /\ <<sig, L>>[1] = sig
                BY <2>2, <3>2
            <4> QED BY <4>1
        <3> QED BY <3>1, <3>2
    <2>7. /\ f \in WithPlaces => pair[2] = L
          /\ Commands!Expanded(pair[2], made.args)[1] = Commands!Expanded(L, made.args)[1]
        <3>1. PICK g \in DOMAIN Commands!Plugins : IsLine(g, pair[2])
            BY <2>3, <2>6
        <3>2. Commands!signature(pair[2]) = Commands!signature(L)
            BY <2>3, <2>6 DEF sig
        <3>3. f = g /\ L[1] = pair[2][1] /\ (f \in WithPlaces => L = pair[2])
            BY <2>1, <3>1, <3>2, SignatureTells
        <3> QED BY <2>1, <3>1, <3>3, ExpandedFirst
    <2>8. ASSUME NEW m \in Monitors, services'[m] # NoService
          PROVE  \E other \in commands' :
                    /\ other[1] = services'[m].sig
                    /\ services'[m].family \in WithPlaces =>
                          Commands!Expanded(other[2], services'[m].args) = services'[m].meant
                    /\ Commands!Expanded(other[2], services'[m].args)[1] = services'[m].meant[1]
        <3>1. CASE services'[m] = check
            BY <2>6, <2>7, <3>1
        <3>2. CASE services'[m] = services[m]
            BY <2>5, <2>8, <3>2 DEF CommandsInv
        <3> HIDE DEF check
        <3> QED BY <2>2, <2>8, <3>1, <3>2
    <2> QED BY <2>1, <2>3, <2>4, <2>8 DEF CommandsInv
<1>2. CASE Commands!ChangeConfig
    BY <1>2 DEF CommandsInv, Commands!ChangeConfig
<1>3. ASSUME NEW n \in Monitors, Commands!Removed(n) PROVE CommandsInv'
    BY <1>3 DEF CommandsInv, Commands!Removed
<1>4. CASE UNCHANGED Commands!vars
    BY <1>4 DEF CommandsInv, Commands!vars
<1> QED BY <1>1, <1>2, <1>3, <1>4 DEF Commands!Next

LEMMA CommandsInvHolds == Spec => []CommandsInv
<1>1. Commands!Init => CommandsInv
    BY DEF Commands!Init, CommandsInv
<1>2. Spec => Commands!Spec
    <2>1. Init => Commands!Init
        BY DEF Init
    <2>2. [Next]_vars => [Commands!Next]_Commands!vars
        BY DEF Next, vars, commandsVars, Commands!vars
    <2> QED BY <2>1, <2>2, PTL DEF Spec, Commands!Spec
<1> QED BY <1>1, <1>2, CommandsNext, PTL DEF Commands!Spec

\* The commands of checks are under the signatures of their lines.
LEMMA CommandsTypes == Spec => []Commands!TypeOK
<1>1. CommandsInv => Commands!TypeOK
    <2> SUFFICES ASSUME CommandsInv, NEW pair \in commands PROVE Commands!signature(pair[2]) = pair[1]
        BY DEF CommandsInv, Commands!TypeOK
    <2>1. pair = <<Commands!signature(pair[2]), pair[2]>>
        BY DEF CommandsInv
    <2> HIDE DEF CommandsInv
    <2> QED BY <2>1
<1> QED BY <1>1, CommandsInvHolds, PTL

\* Checks that give their values as $ARGn$ run the command they are meant to run, and the
\* others its plugin, for any values, options and timeouts and whichever check came first.
THEOREM CommandsAreFit == Spec => []CommandsFit
<1>1. CommandsInv => CommandsFit
    <2> SUFFICES ASSUME CommandsInv, NEW n \in Monitors, services[n] # NoService
                 PROVE  /\ services[n].family \in {"http", "mysql", "pgsql"} =>
                              Commands!Runs(services[n]) = services[n].meant
                        /\ Commands!Runs(services[n])[1] = services[n].meant[1]
        BY DEF CommandsFit, Commands!CommandsFit
    <2>1. PICK pair \in commands :
            /\ pair[1] = services[n].sig
            /\ services[n].family \in WithPlaces =>
                  Commands!Expanded(pair[2], services[n].args) = services[n].meant
            /\ Commands!Expanded(pair[2], services[n].args)[1] = services[n].meant[1]
        BY DEF CommandsInv
    <2>2. (CHOOSE other \in commands : other[1] = services[n].sig) = pair
        BY <2>1 DEF CommandsInv
    <2>3. Commands!Runs(services[n]) = Commands!Expanded(pair[2], services[n].args)
        BY <2>2 DEF Commands!Runs
    <2> QED BY <2>1, <2>3 DEF WithPlaces
<1> QED BY <1>1, CommandsInvHolds, PTL
=============================================================================

----------------------------- MODULE OldSuffix -----------------------------
(***************************************************************************)
(* The names of conflict losers: how a suffix with a number is put on a    *)
(* name and taken off again (internal/oldsuffix/oldsuffix.go).             *)
(*                                                                         *)
(* A name is a sequence of characters, and a character a number: 0 to 9    *)
(* are the digits, and others keep the order they have in ASCII.  A        *)
(* matcher m has the text before and after the %d of its format.           *)
(***************************************************************************)
EXTENDS Integers, Sequences, SequencesExt, FiniteSets, FiniteSetsExt

CONSTANTS
    MaxDepth,  \* maxDepth, 64 in the code
    MaxProbe   \* maxProbe, 65536 in the code

ASSUME SuffixAssumption == MaxDepth \in Nat \ {0} /\ MaxProbe \in Nat \ {0}

IsDigit(c) == c \in 0..9

\* strconv.Itoa and strconv.Atoi.
Digits[n \in Nat] == IF n < 10 THEN <<n>> ELSE Append(Digits[n \div 10], n % 10)
Number(ds) ==
    LET value[i \in 0..Len(ds)] == IF i = 0 THEN 0 ELSE 10 * value[i - 1] + ds[i]
    IN value[Len(ds)]

Format(m, base, n) == base \o m.pre \o Digits[n] \o m.post

\* The places where t occurs in s.
Occurs(t, s) == {i \in 1..(Len(s) + 1 - Len(t)) : SubSeq(s, i, i + Len(t) - 1) = t}

\* What TrimOne takes for a number: digits, no leading zero, not 0.
Numeral(ds) ==
    /\ ds # <<>>
    /\ \A i \in DOMAIN ds : IsDigit(ds[i])
    /\ ds[1] # 0

Bad == [ok |-> FALSE, base |-> <<>>, n |-> 0]

\* The name without its last suffix, and the number of that.  The last place
\* where the literal occurs counts (strings.LastIndex).
TrimOne(m, name) ==
    IF ~IsSuffix(m.post, name) THEN Bad
    ELSE LET rest == SubSeq(name, 1, Len(name) - Len(m.post))
             at == Occurs(m.pre, rest)
         IN IF at = {} THEN Bad
            ELSE LET i == Max(at)
                     ds == SubSeq(rest, i + Len(m.pre), Len(rest))
                 IN IF Numeral(ds) /\ i > 1
                    THEN [ok |-> TRUE, base |-> SubSeq(rest, 1, i - 1), n |-> Number(ds)]
                    ELSE Bad

\* Matcher.Base: the name without its suffixes, at most MaxDepth, and how
\* many they were.
Stripped(m, s) ==
    LET t == TrimOne(m, s.base)
    IN IF t.ok THEN [base |-> t.base, depth |-> s.depth + 1] ELSE s
BaseOf(m, name) ==
    LET strip[d \in 0..MaxDepth] ==
            IF d = 0 THEN [base |-> name, depth |-> 0] ELSE Stripped(m, strip[d - 1])
    IN strip[MaxDepth]

\* Mutant: numbers begin with 0.
FirstFreeFromZero(m, base, names) ==
    CHOOSE n \in 0..MaxProbe :
        /\ n = MaxProbe \/ Format(m, base, n) \notin names
        /\ \A k \in 0..(n - 1) : Format(m, base, k) \in names

\* The smallest number that is free, or the last one that is tried.
FirstFree(m, base, names) ==
    CHOOSE n \in 1..MaxProbe :
        /\ n = MaxProbe \/ Format(m, base, n) \notin names
        /\ \A k \in 1..(n - 1) : Format(m, base, k) \in names

\* NextOldN, with the names that exist for exists.
NextOldN(m, name, names) ==
    LET base == IF BaseOf(m, name).base \in names THEN BaseOf(m, name).base ELSE name
    IN [base |-> base, n |-> FirstFree(m, base, names)]
=============================================================================

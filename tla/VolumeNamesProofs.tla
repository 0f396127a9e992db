------------------------- MODULE VolumeNamesProofs --------------------------
(***************************************************************************)
(* Proofs about VolumeNames, for every set of array IDs, every longest     *)
(* name and any number of volumes that come and go.                        *)
(*                                                                         *)
(* Everything rests on what the names are, position by position: the       *)
(* prefix makes a letter the first character, so VolumeIDToServiceName     *)
(* trims the end only (NameParts), and an ID that is Plain is its own name *)
(* (PlainName).  Sequences of one length are prefixes of one another only  *)
(* if they are equal, so an entry is found and deleted for its own volume  *)
(* (SlashPrefix).                                                          *)
(***************************************************************************)
EXTENDS VolumeNames, SequenceTheorems, WellFoundedInduction, TLAPS

-----------------------------------------------------------------------------
(* Sequences and finite sets of numbers *)

\* The characters of IDs, names and directories.
Text == Characters \cup {"/"}

\* IsPrefix compares position by position.
LEMMA PrefixPoint ==
    ASSUME NEW s \in Seq(Text), NEW t \in Seq(Text)
    PROVE  IsPrefix(s, t) <=> Len(s) <= Len(t) /\ \A i \in 1..Len(s) : s[i] = t[i]
<1>0. Len(s) \in Nat /\ Len(t) \in Nat
  OBVIOUS
<1>1. SubSeq(s, 1, Len(s)) = s
  BY SubSeqFull
<1>2. ASSUME Len(s) <= Len(t)
      PROVE  /\ SubSeq(t, 1, Len(s)) \in Seq(Text)
             /\ Len(SubSeq(t, 1, Len(s))) = Len(s)
             /\ \A i \in 1..Len(s) : SubSeq(t, 1, Len(s))[i] = t[i]
  <2>1. 1 \in 1..(Len(t) + 1) /\ Len(s) \in 0..Len(t)
    BY <1>0, <1>2
  <2>2. QED BY <1>0, <2>1, SubSeqProperties
<1>3. QED
  BY <1>0, <1>1, <1>2, SeqEqual DEF IsPrefix

\* Min and Max of a set of positions that has the first one.
LEMMA FirstPosition ==
    ASSUME NEW n \in Nat, NEW V \in SUBSET (1..n), 1 \in V
    PROVE  Min(V) = 1
<1>1. 1 \in V /\ \A y \in V : y \in 1..n /\ 1 =< y
  OBVIOUS
<1>2. Min(V) \in V /\ \A y \in V : Min(V) =< y
  BY <1>1 DEF Min
<1>3. Min(V) =< 1 /\ 1 =< Min(V) /\ Min(V) \in 1..n
  BY <1>1, <1>2
<1>4. QED BY <1>3

\* A set of positions has a last one.
LEMMA LastPosition ==
    ASSUME NEW n \in Nat, NEW V \in SUBSET (1..n), V # {}
    PROVE  Max(V) \in V /\ \A i \in V : i <= Max(V)
<1> DEFINE T == {n - i : i \in V}
<1>0. \A i \in V : i \in Nat /\ n - i \in Nat
  <2> TAKE i \in V
  <2>1. i \in 1..n
    OBVIOUS
  <2>2. QED BY <2>1
<1>1. T \subseteq Nat /\ T # {}
  BY <1>0
<1>2. PICK x \in T : \A y \in T : ~(<<y, x>> \in OpToRel(<, Nat))
  BY <1>1, NatLessThanWellFounded, WFMin
<1>3. \A y \in T : x <= y
  <2> SUFFICES ASSUME NEW y \in T PROVE x <= y
    OBVIOUS
  <2>1. x \in Nat /\ y \in Nat
    BY <1>1
  <2>2. ~(y < x)
    BY <1>2, <2>1 DEF OpToRel
  <2>3. QED BY <2>1, <2>2
<1>4. PICK m \in V : x = n - m
  BY <1>2
<1>5. \A i \in V : m >= i
  <2> TAKE i \in V
  <2>1. n - m <= n - i /\ m \in Nat /\ i \in Nat
    BY <1>0, <1>3, <1>4
  <2>2. QED BY <2>1
<1>6. QED
  BY <1>5 DEF Max

\* Min of two numbers.
LEMMA LesserOf ==
    ASSUME NEW a \in Nat, NEW b \in Nat
    PROVE  Min({a, b}) = IF a <= b THEN a ELSE b
BY DEF Min

-----------------------------------------------------------------------------
(* csinfs.go *)

\* The prefix, position by position.
LEMMA PrefixParts ==
    Prefix \in Seq(Text) /\ Len(Prefix) = 2 /\ Prefix[1] = "n" /\ Prefix[2] = "-"
<1>1. "n" \in Text /\ "-" \in Text
  BY DEF Text, Characters
<1>2. Prefix \in Seq(Text)
  BY <1>1 DEF Prefix
<1>3. Len(Prefix) = 2 /\ Prefix[1] = "n" /\ Prefix[2] = "-"
  BY DEF Prefix
<1>4. QED BY <1>2, <1>3

\* An ID with the prefix, position by position.
LEMMA PrefixedParts ==
    ASSUME NEW a \in Seq(Text)
    PROVE  /\ ArrayToNFSVolumeID(a) \in Seq(Text)
           /\ Len(ArrayToNFSVolumeID(a)) = Len(a) + 2
           /\ ArrayToNFSVolumeID(a)[1] = "n" /\ ArrayToNFSVolumeID(a)[2] = "-"
           /\ \A i \in 1..Len(a) : ArrayToNFSVolumeID(a)[i + 2] = a[i]
<1>1. /\ Prefix \in Seq(Text) /\ Len(Prefix) = 2
      /\ Prefix[1] = "n" /\ Prefix[2] = "-"
  BY PrefixParts
<1>2. /\ Prefix \o a \in Seq(Text) /\ Len(Prefix \o a) = Len(Prefix) + Len(a)
      /\ \A i \in 1..(Len(Prefix) + Len(a)) :
             (Prefix \o a)[i] = IF i <= Len(Prefix) THEN Prefix[i] ELSE a[i - Len(Prefix)]
  BY <1>1, ConcatProperties
<1>3. Len(a) \in Nat
  BY LenProperties
<1>4. \A i \in 1..Len(a) : i + 2 \in 1..(2 + Len(a)) /\ ~(i + 2 <= 2) /\ (i + 2) - 2 = i
  BY <1>3
<1>5. 1 \in 1..(2 + Len(a)) /\ 2 \in 1..(2 + Len(a)) /\ 2 + Len(a) = Len(a) + 2
  BY <1>3
<1>6. QED
  BY <1>1, <1>2, <1>4, <1>5 DEF ArrayToNFSVolumeID

\* ToArrayVolumeID undoes ArrayToNFSVolumeID, also for an ID that begins with the
\* prefix itself: one prefix is put on, and one is taken off.
LEMMA RoundTrip ==
    ASSUME NEW a \in Seq(Text)
    PROVE  ToArrayVolumeID(ArrayToNFSVolumeID(a)) = a
<1> DEFINE id == ArrayToNFSVolumeID(a)
<1>0. /\ id \in Seq(Text) /\ Len(id) = Len(a) + 2 /\ Len(a) \in Nat
      /\ id[1] = "n" /\ id[2] = "-" /\ \A i \in 1..Len(a) : id[i + 2] = a[i]
  BY PrefixedParts
<1>1. /\ Prefix \in Seq(Text) /\ Len(Prefix) = 2
      /\ Prefix[1] = "n" /\ Prefix[2] = "-"
  BY PrefixParts
<1> HIDE DEF id
<1>2. hasNFSPrefix(id)
  <2>1. \A i \in 1..Len(Prefix) : i = 1 \/ i = 2
    BY <1>1
  <2>2. Len(Prefix) <= Len(id) /\ \A i \in 1..Len(Prefix) : Prefix[i] = id[i]
    BY <1>0, <1>1, <2>1
  <2>3. QED BY <1>0, <1>1, <2>2, PrefixPoint DEF hasNFSPrefix
<1>3. ToArrayVolumeID(id) = SubSeq(id, 3, Len(id))
  BY <1>1, <1>2 DEF ToArrayVolumeID
<1>4. /\ SubSeq(id, 3, Len(id)) \in Seq(Text)
      /\ Len(SubSeq(id, 3, Len(id))) = Len(a)
      /\ \A i \in 1..Len(a) : SubSeq(id, 3, Len(id))[i] = a[i]
  <2>1. 3 \in 1..(Len(id) + 1) /\ Len(id) \in 2..Len(id)
    BY <1>0
  <2>2. /\ SubSeq(id, 3, Len(id)) \in Seq(Text)
        /\ Len(SubSeq(id, 3, Len(id))) = IF 3 <= Len(id) THEN Len(id) - 3 + 1 ELSE 0
        /\ \A i \in 1..(Len(id) - 3 + 1) : SubSeq(id, 3, Len(id))[i] = id[3 + i - 1]
    BY <1>0, <2>1, SubSeqProperties
  <2>3. \A i \in 1..Len(a) : i \in 1..(Len(id) - 3 + 1) /\ 3 + i - 1 = i + 2
    BY <1>0
  <2>4. QED BY <1>0, <2>2, <2>3
<1>5. SubSeq(id, 3, Len(id)) = a
  BY <1>4, SeqEqual
<1>6. QED
  BY <1>3, <1>5 DEF id

\* ToLower gives lowercase characters and changes no legal one.
LEMMA LowerParts ==
    ASSUME NEW c \in Text
    PROVE  /\ ToLower(c) \in Text /\ (c \in Legal => ToLower(c) = c)
           /\ ToLower("n") = "n"
BY DEF ToLower, Text, Characters, Legal, Alnum

\* What VolumeIDToServiceName makes of an ID that begins with the prefix: the
\* lowercase characters up to the last letter or digit, as many as a name may have,
\* with "-" for the illegal ones.
LEMMA NameParts ==
    ASSUME NEW id \in Seq(Text), Len(id) >= 1, id[1] = "n"
    PROVE  \E m \in 1..Len(id) :
               LET name == VolumeIDToServiceName(id) IN
               /\ ToLower(id[m]) \in Alnum
               /\ \A i \in 1..Len(id) : ToLower(id[i]) \in Alnum => i <= m
               /\ name \in Seq(Text) /\ DOMAIN name = 1..Len(name)
               /\ Len(name) = IF m <= MaxName THEN m ELSE MaxName
               /\ \A i \in 1..Len(name) :
                      name[i] = IF ToLower(id[i]) \in Legal THEN ToLower(id[i]) ELSE "-"
<1> DEFINE lower == [i \in DOMAIN id |-> ToLower(id[i])]
<1> DEFINE valid == {i \in DOMAIN lower : lower[i] \in Alnum}
<1>0. /\ Len(id) \in Nat /\ DOMAIN id = 1..Len(id)
      /\ \A i \in 1..Len(id) : id[i] \in Text
  BY LenProperties, ElementOfSeq
<1>1. lower \in [1..Len(id) -> Text]
  BY <1>0, LowerParts
<1>2. lower \in Seq(Text) /\ Len(lower) = Len(id) /\ DOMAIN lower = 1..Len(id)
  BY <1>0, <1>1
<1>3. 1 \in 1..Len(id) /\ lower[1] \in Alnum
  BY <1>0, LowerParts DEF Alnum
<1>4. valid \in SUBSET (1..Len(id)) /\ 1 \in valid /\ valid # {}
  BY <1>2, <1>3
<1>5. Min(valid) = 1
  BY <1>0, <1>4, FirstPosition
<1>6. Max(valid) \in valid /\ \A i \in valid : i <= Max(valid)
  BY <1>0, <1>4, LastPosition
<1> DEFINE m == Max(valid)
<1>7. /\ m \in 1..Len(id) /\ ToLower(id[m]) \in Alnum
      /\ \A i \in 1..Len(id) : ToLower(id[i]) \in Alnum => i <= m
  BY <1>0, <1>4, <1>6
<1> DEFINE kept == SubSeq(lower, 1, m)
<1>8. TrimEnds(lower) = kept
  BY <1>4, <1>5 DEF TrimEnds
<1> HIDE DEF lower
<1>9. kept \in Seq(Text) /\ Len(kept) = m /\ \A i \in 1..m : kept[i] = lower[i]
  <2> HIDE DEF m
  <2>1. m \in Nat /\ 1 <= m /\ m <= Len(id)
    BY <1>0, <1>7
  <2>2. \A i \in 1..m : lower[i] \in Text
    BY <1>0, <1>1, <2>1
  <2>3. /\ kept \in Seq(Text) /\ Len(kept) = IF 1 <= m THEN m - 1 + 1 ELSE 0
        /\ \A i \in 1..(m - 1 + 1) : kept[i] = lower[1 + i - 1]
    BY <2>1, <2>2, SubSeqProperties
  <2>4. QED BY <2>1, <2>3
<1> DEFINE n == IF m <= MaxName THEN m ELSE MaxName
<1> DEFINE cut == SubSeq(kept, 1, n)
<1>10. n \in Nat /\ 1 <= n /\ n <= m
  <2> HIDE DEF m
  <2>1. m \in Nat /\ 1 <= m
    BY <1>0, <1>7
  <2>2. QED BY <2>1, VolumeNamesAssumption
<1>11. Truncate(kept) = cut
  <2> HIDE DEF m, kept
  <2>1. m \in Nat /\ MaxName \in Nat
    BY <1>0, <1>7, VolumeNamesAssumption
  <2>2. Min({Len(kept), MaxName}) = n
    BY <1>9, <2>1, LesserOf
  <2>3. QED BY <2>2 DEF Truncate
<1> HIDE DEF m, kept, n
<1>12. cut \in Seq(Text) /\ Len(cut) = n /\ \A i \in 1..n : cut[i] = lower[i]
  <2>1. m \in Nat
    BY <1>0, <1>7
  <2>2. \A i \in 1..n : i \in 1..m
    BY <1>10, <2>1
  <2>3. \A i \in 1..n : kept[i] \in Text /\ kept[i] = lower[i]
    BY <1>9, <2>2, ElementOfSeq
  <2>4. /\ cut \in Seq(Text) /\ Len(cut) = IF 1 <= n THEN n - 1 + 1 ELSE 0
        /\ \A i \in 1..(n - 1 + 1) : cut[i] = kept[1 + i - 1]
    BY <1>10, <2>3, SubSeqProperties
  <2>5. QED BY <1>10, <2>3, <2>4
<1> HIDE DEF cut
<1> DEFINE name == ReplaceIllegal(cut)
<1>13. DOMAIN cut = 1..n
  BY <1>12, LenProperties
<1>14. name = [i \in 1..n |-> IF cut[i] \in Legal THEN cut[i] ELSE "-"]
  BY <1>13 DEF ReplaceIllegal
<1>15. \A i \in 1..n : (IF cut[i] \in Legal THEN cut[i] ELSE "-") \in Text
  BY DEF Legal, Alnum, Text, Characters
<1>16. name \in [1..n -> Text]
  BY <1>14, <1>15
<1> HIDE DEF name
<1>17. name \in Seq(Text) /\ Len(name) = n /\ DOMAIN name = 1..n
  BY <1>10, <1>16
<1>18. \A i \in 1..n : name[i] = IF ToLower(id[i]) \in Legal THEN ToLower(id[i]) ELSE "-"
  <2> SUFFICES ASSUME NEW i \in 1..n
               PROVE  name[i] = IF ToLower(id[i]) \in Legal THEN ToLower(id[i]) ELSE "-"
    OBVIOUS
  <2>1. name[i] = IF cut[i] \in Legal THEN cut[i] ELSE "-"
    BY <1>14
  <2>2. i \in 1..Len(id)
    BY <1>0, <1>7, <1>10
  <2>3. cut[i] = ToLower(id[i])
    BY <1>0, <1>12, <2>2 DEF lower
  <2>4. QED BY <2>1, <2>3
<1>19. VolumeIDToServiceName(id) = name
  BY <1>8, <1>11 DEF VolumeIDToServiceName, name, lower
<1>20. QED
  BY <1>7, <1>17, <1>18, <1>19 DEF n

\* A Plain ID is its own name.
LEMMA PlainName ==
    ASSUME NEW id \in Seq(Text), Len(id) >= 1, id[1] = "n", Plain(id)
    PROVE  VolumeIDToServiceName(id) = id
<1> DEFINE name == VolumeIDToServiceName(id)
<1>0. /\ Len(id) \in Nat /\ DOMAIN id = 1..Len(id)
      /\ \A i \in 1..Len(id) : id[i] \in Text
  BY LenProperties, ElementOfSeq
<1>1. PICK m \in 1..Len(id) :
          /\ \A i \in 1..Len(id) : ToLower(id[i]) \in Alnum => i <= m
          /\ name \in Seq(Text) /\ Len(name) = IF m <= MaxName THEN m ELSE MaxName
          /\ \A i \in 1..Len(name) :
                 name[i] = IF ToLower(id[i]) \in Legal THEN ToLower(id[i]) ELSE "-"
  BY NameParts
<1> HIDE DEF name
<1>2. \A i \in 1..Len(id) : id[i] \in Legal /\ ToLower(id[i]) = id[i]
  BY <1>0, LowerParts DEF Plain
<1>3. Len(id) \in 1..Len(id) /\ id[Len(id)] \in Alnum /\ Len(id) <= MaxName
  BY <1>0 DEF Plain, Last
<1>4. Len(id) <= m
  BY <1>1, <1>2, <1>3
<1>5. m = Len(id)
  <2>1. Len(id) \in Nat
    BY <1>0
  <2>2. m \in Nat /\ m <= Len(id)
    BY <2>1
  <2>3. QED BY <1>4, <2>1, <2>2
<1>6. Len(name) = Len(id)
  BY <1>1, <1>3, <1>5
<1>7. \A i \in 1..Len(name) : name[i] = id[i]
  BY <1>1, <1>2, <1>6
<1>8. name = id
  BY <1>1, <1>6, <1>7, SeqEqual
<1>9. QED BY <1>8 DEF name

\* A sequence with a slash after it, position by position.
LEMMA SlashParts ==
    ASSUME NEW s \in Seq(Text)
    PROVE  /\ s \o <<"/">> \in Seq(Text) /\ Len(s \o <<"/">>) = Len(s) + 1
           /\ \A i \in 1..Len(s) : (s \o <<"/">>)[i] = s[i]
           /\ (s \o <<"/">>)[Len(s) + 1] = "/"
<1>1. "/" \in Text
  BY DEF Text
<1>2. <<"/">> \in Seq(Text) /\ Len(<<"/">>) = 1 /\ <<"/">>[1] = "/"
  BY <1>1
<1>3. /\ s \o <<"/">> \in Seq(Text) /\ Len(s \o <<"/">>) = Len(s) + 1
      /\ \A i \in 1..(Len(s) + 1) :
             (s \o <<"/">>)[i] = IF i <= Len(s) THEN s[i] ELSE <<"/">>[i - Len(s)]
  BY <1>2, ConcatProperties
<1>4. Len(s) \in Nat
  BY LenProperties
<1>5. /\ \A i \in 1..Len(s) : i \in 1..(Len(s) + 1) /\ i <= Len(s)
      /\ Len(s) + 1 \in 1..(Len(s) + 1) /\ ~(Len(s) + 1 <= Len(s))
      /\ (Len(s) + 1) - Len(s) = 1
  BY <1>4
<1>6. \A i \in 1..Len(s) : (s \o <<"/">>)[i] = s[i]
  BY <1>3, <1>5
<1>7. (s \o <<"/">>)[Len(s) + 1] = "/"
  BY <1>2, <1>3, <1>5
<1>8. QED BY <1>3, <1>6, <1>7

\* Among names of one length a directory, with a slash at its end or without, is a
\* prefix of its own entry only.
LEMMA SlashPrefix ==
    ASSUME NEW s \in Seq(Text), NEW t \in Seq(Text), Len(s) = Len(t)
    PROVE  /\ IsPrefix(s, t \o <<"/">>) <=> s = t
           /\ IsPrefix(s \o <<"/">>, t \o <<"/">>) <=> s = t
<1> DEFINE d == s \o <<"/">>
<1> DEFINE e == t \o <<"/">>
<1>0. Len(s) \in Nat
  BY LenProperties
<1>1. /\ d \in Seq(Text) /\ Len(d) = Len(s) + 1
      /\ \A i \in 1..Len(s) : d[i] = s[i]
  BY SlashParts
<1>2. /\ e \in Seq(Text) /\ Len(e) = Len(s) + 1
      /\ \A i \in 1..Len(s) : e[i] = t[i]
  BY SlashParts
<1>3. s = t => d = e
  OBVIOUS
<1> HIDE DEF d, e
<1>4. (\A i \in 1..Len(s) : s[i] = t[i]) => s = t
  BY SeqEqual
<1>5. IsPrefix(s, e) <=> s = t
  <2>1. IsPrefix(s, e) <=> Len(s) <= Len(e) /\ \A i \in 1..Len(s) : s[i] = e[i]
    BY <1>2, PrefixPoint
  <2>2. Len(s) <= Len(e)
    BY <1>0, <1>2
  <2>3. QED BY <1>2, <1>4, <2>1, <2>2
<1>6. IsPrefix(d, e) <=> s = t
  <2>1. IsPrefix(d, e) <=> Len(d) <= Len(e) /\ \A i \in 1..Len(d) : d[i] = e[i]
    BY <1>1, <1>2, PrefixPoint
  <2>2. \A i \in 1..Len(s) : i \in 1..Len(d)
    BY <1>0, <1>1
  <2>3. IsPrefix(d, e) => s = t
    BY <1>1, <1>2, <1>4, <2>1, <2>2
  <2>4. d = e => IsPrefix(d, e)
    BY <1>0, <1>1, <2>1
  <2>5. QED BY <1>3, <2>3, <2>4
<1>7. QED BY <1>5, <1>6 DEF d, e

-----------------------------------------------------------------------------
(* The volumes that come and go *)

\* Every volume was made from an array ID by ArrayToNFSVolumeID.
Made == volumes \subseteq {ArrayToNFSVolumeID(a) : a \in ArrayIDs} /\ served \subseteq volumes

NamesInv == Made /\ ExportsKeptApart

\* What a volume's ID is.
LEMMA MadeParts ==
    ASSUME Made, NEW id \in volumes
    PROVE  /\ id \in Seq(Text) /\ Len(id) \in Nat /\ Len(id) >= 1 /\ id[1] = "n"
           /\ ToArrayVolumeID(id) \in ArrayIDs
           /\ RequestID(id) = id
<1>1. PICK a \in ArrayIDs : id = ArrayToNFSVolumeID(a)
  BY DEF Made
<1>2. a \in Seq(Text)
  <2>1. a \in Seq(Characters) /\ Characters \subseteq Text
    BY VolumeNamesAssumption DEF Text
  <2>2. QED BY <2>1, SeqMonotonic
<1>3. ToArrayVolumeID(id) = a
  BY <1>1, <1>2, RoundTrip
<1>4. Len(a) \in Nat /\ id \in Seq(Text) /\ Len(id) = Len(a) + 2 /\ id[1] = "n"
  BY <1>1, <1>2, PrefixedParts, LenProperties
<1>5. QED
  BY <1>1, <1>3, <1>4 DEF RequestID

\* All volumes have Plain IDs of one length.
Uniform == \A id, other \in volumes : Plain(id) /\ Len(id) = Len(other)

\* Then the entries are the served IDs with a slash, and a volume's directory finds
\* its own entry only.
LEMMA UniformEntries ==
    ASSUME NamesInv, Uniform, NEW id \in volumes
    PROVE  /\ VolumeIDToServiceName(id) = id
           /\ \A x \in served : VolumeIDToServiceName(x) = x
           /\ exports = {x \o <<"/">> : x \in served}
           /\ \A x \in served : IsPrefix(id, x \o <<"/">>) <=> id = x
           /\ \A x \in served : IsPrefix(id \o <<"/">>, x \o <<"/">>) <=> id = x
<1>0. Made /\ served \subseteq volumes
  BY DEF NamesInv, Made
<1>1. \A x \in volumes : VolumeIDToServiceName(x) = x
  BY <1>0, MadeParts, PlainName DEF Uniform
<1>2. exports = {VolumeIDToServiceName(x) \o <<"/">> : x \in served}
  BY DEF NamesInv, ExportsKeptApart, Uniform
<1>3. exports = {x \o <<"/">> : x \in served}
  BY <1>0, <1>1, <1>2
<1>4. \A x \in served : /\ IsPrefix(id, x \o <<"/">>) <=> id = x
                        /\ IsPrefix(id \o <<"/">>, x \o <<"/">>) <=> id = x
  <2> SUFFICES ASSUME NEW x \in served
               PROVE  /\ IsPrefix(id, x \o <<"/">>) <=> id = x
                      /\ IsPrefix(id \o <<"/">>, x \o <<"/">>) <=> id = x
    OBVIOUS
  <2>1. x \in volumes
    BY <1>0
  <2>2. id \in Seq(Text) /\ x \in Seq(Text)
    BY <1>0, <2>1, MadeParts
  <2>3. Len(id) = Len(x)
    BY <2>1 DEF Uniform
  <2>4. QED BY <2>2, <2>3, SlashPrefix
<1>5. \A x \in served : VolumeIDToServiceName(x) = x
  BY <1>0, <1>1
<1>6. QED BY <1>1, <1>3, <1>4, <1>5

\* A new volume leaves the entries alone.
LEMMA CreateVolumeStep ==
    ASSUME NamesInv, NEW a \in ArrayIDs, CreateVolume(a)
    PROVE  NamesInv'
<1>1. /\ volumes' = volumes \cup {ArrayToNFSVolumeID(a)}
      /\ exports' = exports /\ served' = served
  BY DEF CreateVolume
<1>2. Made'
  BY <1>1 DEF NamesInv, Made
<1>3. Uniform' => Uniform
  BY <1>1 DEF Uniform
<1>4. ExportsKeptApart'
  BY <1>1, <1>3 DEF NamesInv, ExportsKeptApart, Uniform
<1>5. QED BY <1>2, <1>4 DEF NamesInv

\* An export finds the volume's own entry, or adds it.
LEMMA ExportNfsVolumeStep ==
    ASSUME NamesInv, NEW id \in volumes, ExportNfsVolume(id)
    PROVE  NamesInv'
<1> DEFINE path == VolumeIDToServiceName(id) \o <<"/">>
<1>0. Made /\ RequestID(id) = id
  BY MadeParts DEF NamesInv
<1>1. /\ exports' = IF checkExport(path) THEN exports ELSE exports \cup {path}
      /\ served' = served \cup {id} /\ volumes' = volumes
  BY <1>0 DEF ExportNfsVolume, AddExport
<1>2. Made'
  BY <1>0, <1>1 DEF Made
<1>3. ASSUME Uniform
      PROVE  exports' = {VolumeIDToServiceName(x) \o <<"/">> : x \in served'}
  <2>1. /\ VolumeIDToServiceName(id) = id
        /\ \A x \in served : VolumeIDToServiceName(x) = x
        /\ exports = {x \o <<"/">> : x \in served}
        /\ \A x \in served : IsPrefix(id \o <<"/">>, x \o <<"/">>) <=> id = x
    BY <1>3, UniformEntries
  <2>2. checkExport(path) <=> id \in served
    BY <2>1 DEF checkExport, Lines
  <2>3. exports' = {x \o <<"/">> : x \in served \cup {id}}
    BY <1>1, <2>1, <2>2
  <2>4. QED BY <1>1, <2>1, <2>3
<1>4. ExportsKeptApart'
  BY <1>1, <1>3 DEF ExportsKeptApart, Uniform
<1>5. QED BY <1>2, <1>4 DEF NamesInv

\* An unexport deletes the volume's own entry and no other.
LEMMA UnexportNfsVolumeStep ==
    ASSUME NamesInv, NEW id \in volumes, UnexportNfsVolume(id)
    PROVE  NamesInv'
<1>0. Made
  BY DEF NamesInv
<1>1. /\ exports' = exports \ Lines(VolumeIDToServiceName(id))
      /\ served' = served \ {id} /\ volumes' = volumes
  BY DEF UnexportNfsVolume, DeleteExport
<1>2. Made'
  BY <1>0, <1>1 DEF Made
<1>3. ASSUME Uniform
      PROVE  exports' = {VolumeIDToServiceName(x) \o <<"/">> : x \in served'}
  <2>1. /\ VolumeIDToServiceName(id) = id
        /\ \A x \in served : VolumeIDToServiceName(x) = x
        /\ exports = {x \o <<"/">> : x \in served}
        /\ \A x \in served : IsPrefix(id, x \o <<"/">>) <=> id = x
    BY <1>3, UniformEntries
  <2>2. \A x \in served : x \o <<"/">> \in Lines(id) <=> x = id
    BY <2>1 DEF Lines
  <2>3. exports' = {x \o <<"/">> : x \in served \ {id}}
    BY <1>1, <2>1, <2>2
  <2>4. QED BY <1>1, <2>1, <2>3
<1>4. ExportsKeptApart'
  BY <1>1, <1>3 DEF ExportsKeptApart, Uniform
<1>5. QED BY <1>2, <1>4 DEF NamesInv

\* NamesInv holds in every reachable state.
LEMMA NamesAlways == Spec => []NamesInv
<1>1. Init => NamesInv
  BY DEF Init, NamesInv, Made, ExportsKeptApart
<1>2. NamesInv /\ [Next]_vars => NamesInv'
  <2> SUFFICES ASSUME NamesInv, [Next]_vars PROVE NamesInv'
    OBVIOUS
  <2>1. CASE Next
    BY <2>1, CreateVolumeStep, ExportNfsVolumeStep, UnexportNfsVolumeStep DEF Next
  <2>2. CASE UNCHANGED vars
    BY <2>2 DEF vars, NamesInv, Made, ExportsKeptApart
  <2>3. QED BY <2>1, <2>2
<1>3. QED BY <1>1, <1>2, PTL DEF Spec

-----------------------------------------------------------------------------
(* Theorems *)

\* Controller and node work out the same names, and the array's ID comes back, for
\* all array IDs, those that begin with the prefix included.
THEOREM SpellingsMeet == Spec => []SpellingsAgree
<1>1. NamesInv => SpellingsAgree
  <2> SUFFICES ASSUME NamesInv, NEW id \in volumes
               PROVE  /\ ToArrayVolumeID(id) \in ArrayIDs
                      /\ ArrayToNFSVolumeID(ToArrayVolumeID(id)) = id
                      /\ VolumeIDToServiceName(RequestID(id)) = VolumeIDToServiceName(id)
    BY DEF SpellingsAgree
  <2>1. ToArrayVolumeID(id) \in ArrayIDs /\ RequestID(id) = id
    BY MadeParts DEF NamesInv
  <2>2. QED BY <2>1 DEF RequestID
<1>2. QED BY <1>1, NamesAlways, PTL

\* VolumeIDToServiceName gives every volume a legal name: neither the trimming nor
\* the cut leaves it empty or beginning with anything but a letter or digit.
THEOREM NamesAreLegal == Spec => []ServiceNameLegal
<1>1. NamesInv => ServiceNameLegal
  <2> SUFFICES ASSUME NamesInv, NEW id \in volumes
               PROVE  LET name == VolumeIDToServiceName(id) IN
                      /\ \A i \in DOMAIN name : name[i] \in Legal
                      /\ Len(name) \in 1..MaxName /\ name[1] \in Alnum
                      /\ Len(id) <= MaxName => Last(name) \in Alnum
    BY DEF ServiceNameLegal
  <2> DEFINE name == VolumeIDToServiceName(id)
  <2>1. id \in Seq(Text) /\ Len(id) \in Nat /\ Len(id) >= 1 /\ id[1] = "n"
    BY MadeParts DEF NamesInv
  <2>2. PICK m \in 1..Len(id) :
            /\ ToLower(id[m]) \in Alnum
            /\ DOMAIN name = 1..Len(name)
            /\ Len(name) = IF m <= MaxName THEN m ELSE MaxName
            /\ \A i \in 1..Len(name) :
                   name[i] = IF ToLower(id[i]) \in Legal THEN ToLower(id[i]) ELSE "-"
    BY <2>1, NameParts
  <2> HIDE DEF name
  <2>3. Len(name) \in 1..MaxName /\ 1 \in 1..Len(name)
    BY <2>1, <2>2, VolumeNamesAssumption
  <2>4. \A i \in 1..Len(name) : name[i] \in Legal
    BY <2>2 DEF Legal
  <2>5. ToLower("n") = "n"
    BY DEF ToLower
  <2>6. name[1] \in Alnum
    BY <2>1, <2>2, <2>3, <2>5 DEF Alnum, Legal
  <2>7. ASSUME Len(id) <= MaxName PROVE Last(name) \in Alnum
    <3>1. Len(name) = m
      BY <2>1, <2>2, <2>7, VolumeNamesAssumption
    <3>2. Len(name) \in 1..Len(name)
      BY <2>3, VolumeNamesAssumption
    <3>3. name[Len(name)] = ToLower(id[m])
      BY <2>2, <3>1, <3>2 DEF Legal
    <3>4. QED BY <2>2, <3>3 DEF Last
  <2>8. QED BY <2>2, <2>3, <2>4, <2>6, <2>7 DEF name
<1>2. QED BY <1>1, NamesAlways, PTL

\* With Plain IDs of one length /etc/exports has exactly the entries of the volumes
\* last exported, whatever the order in which volumes come and go.
THEOREM EntriesKeptApart == Spec => []ExportsKeptApart
<1>1. NamesInv => ExportsKeptApart
  BY DEF NamesInv
<1>2. QED BY <1>1, NamesAlways, PTL
=============================================================================

-------------------------- MODULE OpenFilesProofs --------------------------
(* Theorems about OpenFiles, for any directory, names and commands, any       *)
(* number of terminals and sizes of tables, outside the windows.              *)
EXTENDS OpenFiles, SequenceTheorems, WellFoundedInduction, TLAPS

(* The used dentries.                                                         *)
LEMMA DirectoryFacts ==
    /\ Len(Directory) \in Nat /\ DOMAIN Directory = 1 .. Len(Directory)
    /\ \A i \in DOMAIN Directory : /\ Directory[i].name \in String
                                   /\ Directory[i].type \in Type
                                   /\ Directory[i].name # <<>>
                                   /\ Len(Directory[i].name) \in 1 .. NAME_LENGTH
                                   /\ Dentry(i) = Directory[i]
                                   /\ i \in 1 .. DENTRIES_NUM
    /\ \A i \in 1 .. DENTRIES_NUM : i \notin DOMAIN Directory =>
          Dentry(i) = [name |-> <<>>, type |-> 0]
<1>0. Directory \in Seq([name : String, type : Type])
  BY OpenFilesAssumption
<1>1. Len(Directory) \in Nat /\ DOMAIN Directory = 1 .. Len(Directory)
  BY <1>0
<1>2. \A i \in DOMAIN Directory : Directory[i] \in [name : String, type : Type]
  BY <1>0, <1>1, ElementOfSeq
<1>3. \A i \in DOMAIN Directory : Len(Directory[i].name) \in 1 .. NAME_LENGTH
  BY OpenFilesAssumption
<1>4. ASSUME NEW i \in DOMAIN Directory
      PROVE  /\ Directory[i].name \in String
             /\ Directory[i].type \in Type
             /\ Directory[i].name # <<>>
             /\ Dentry(i) = Directory[i]
             /\ i \in 1 .. DENTRIES_NUM
  <2>1. Directory[i].name # <<>>
    BY <1>3
  <2>2. i <= Len(Directory) /\ i \in 1 .. DENTRIES_NUM
    BY <1>1, OpenFilesAssumption
  <2> QED
    BY <1>2, <2>1, <2>2 DEF Dentry
<1>5. \A i \in 1 .. DENTRIES_NUM : i \notin DOMAIN Directory =>
          Dentry(i) = [name |-> <<>>, type |-> 0]
  BY <1>1, OpenFilesAssumption DEF Dentry
<1> QED
  BY <1>1, <1>3, <1>4, <1>5

(* Strings that agree in every place, the end included, are the same.         *)
LEMMA SameString ==
    ASSUME NEW s \in String, NEW r \in String, Len(s) = Len(r),
           \A k \in 1 .. Len(s) : s[k] = r[k]
    PROVE  s = r
BY DEF String

(* The comparison of read_dentry_by_name finds equal names, whatever their    *)
(* lengths, and no others.                                                    *)
LEMMA MatchIsEqual ==
    ASSUME NEW name \in String, Len(name) <= NAME_LENGTH,
           NEW d, d.name \in String, Len(d.name) \in 0 .. NAME_LENGTH, d.type \in Type
    PROVE  Matches(name, d) <=> name = d.name
<1> DEFINE L == Len(name)
           M == Len(d.name)
           D == LengthOfDentry(d)
           n == IF L > D \/ L = NAME_LENGTH THEN L ELSE D
<1>1. L \in Nat /\ M \in Nat /\ NAME_LENGTH \in Nat \ {0} /\ L <= NAME_LENGTH /\ M <= NAME_LENGTH
  BY OpenFilesAssumption DEF String
<1>2. /\ \A k \in 1 .. L : name[k] \in Nat \ {0}
      /\ \A k \in 1 .. M : d.name[k] \in Nat \ {0}
  BY DEF String
<1>3. /\ D = M \/ (D = NAME_LENGTH + 1 /\ M = NAME_LENGTH)
      /\ D = NAME_LENGTH + 1 => d.type # 0
  BY <1>1 DEF LengthOfDentry
<1> HIDE DEF L, M, D
<1>9. /\ n \in Nat
      /\ L = NAME_LENGTH => n = L
      /\ L > M => n = L
      /\ L < M /\ L # NAME_LENGTH => n >= M
      /\ L = M => n = L \/ n = L + 1
  <2>1. CASE D = M
    BY <1>1, <2>1
  <2>2. CASE D = NAME_LENGTH + 1 /\ M = NAME_LENGTH
    BY <1>1, <2>2
  <2> QED
    BY <1>3, <2>1, <2>2
<1> USE DEF L, M
<1>4. /\ \A k \in 1 .. L : CharOf(name, k) = name[k]
      /\ \A k \in Nat : k > L => CharOf(name, k) = 0
  BY <1>1 DEF CharOf
<1>5. /\ \A k \in 1 .. M : CharOfDentry(d, k) = d.name[k]
      /\ \A k \in 1 .. NAME_LENGTH : k > M => CharOfDentry(d, k) = 0
  BY <1>1 DEF CharOfDentry, CharOf
<1>6. Matches(name, d) <=> \A k \in 1 .. n : k <= L + 1 => CharOf(name, k) = CharOfDentry(d, k)
  BY DEF Matches, SameFirst, D
<1> HIDE DEF L, M, n
<1>7. ASSUME name = d.name PROVE Matches(name, d)
  <2>1. L = M
    BY <1>7 DEF L, M
  <2>2. \A k \in 1 .. L : CharOf(name, k) = CharOfDentry(d, k)
    BY <1>4, <1>5, <1>7, <2>1
  <2>3. CharOf(name, L + 1) = 0
    BY <1>1, <1>4
  <2>4. L < NAME_LENGTH => CharOfDentry(d, L + 1) = 0
    BY <1>1, <1>5, <2>1
  <2>5. L = NAME_LENGTH => n = L
    BY <1>9
  <2>6. SUFFICES ASSUME NEW k \in 1 .. n, k <= L + 1
                 PROVE  CharOf(name, k) = CharOfDentry(d, k)
    BY <1>6
  <2>7. k \in 1 .. L \/ (k = L + 1 /\ L < NAME_LENGTH)
    BY <1>1, <1>9, <2>5, <2>6
  <2> QED
    BY <2>2, <2>3, <2>4, <2>7
<1>8. ASSUME Matches(name, d) PROVE name = d.name
  <2>1. L = M
    <3>1. CASE L = NAME_LENGTH
      <4>1. n = L /\ L \in 1 .. n /\ L <= L + 1
        BY <1>1, <1>9, <3>1
      <4>2. CharOfDentry(d, L) = name[L] /\ name[L] # 0
        BY <1>2, <1>4, <1>6, <1>8, <4>1
      <4>3. ~(L > M)
        BY <1>1, <1>5, <3>1, <4>2
      <4> QED
        BY <1>1, <3>1, <4>3
    <3>2. CASE L # NAME_LENGTH /\ L > M
      <4>1. /\ M + 1 \in 1 .. n /\ M + 1 \in 1 .. L /\ M + 1 <= L + 1
            /\ M + 1 \in 1 .. NAME_LENGTH /\ M + 1 > M
        BY <1>1, <1>9, <3>2
      <4>2. CharOf(name, M + 1) = CharOfDentry(d, M + 1)
        BY <1>6, <1>8, <4>1
      <4>3. CharOf(name, M + 1) # 0
        BY <1>2, <1>4, <4>1
      <4> QED
        BY <1>5, <4>1, <4>2, <4>3
    <3>3. CASE L # NAME_LENGTH /\ L < M
      <4>1. /\ L + 1 \in 1 .. n /\ L + 1 \in 1 .. M /\ L + 1 <= L + 1
            /\ L + 1 > L /\ L + 1 \in Nat
        BY <1>1, <1>9, <3>3
      <4>2. CharOf(name, L + 1) = CharOfDentry(d, L + 1)
        BY <1>6, <1>8, <4>1
      <4>3. CharOf(name, L + 1) = 0 /\ CharOfDentry(d, L + 1) # 0
        BY <1>2, <1>4, <1>5, <4>1
      <4> QED
        BY <4>2, <4>3
    <3> QED
      BY <1>1, <3>1, <3>2, <3>3
  <2>2. n = L \/ n = L + 1
    BY <1>9, <2>1
  <2>3. \A k \in 1 .. L : k \in 1 .. n /\ k <= L + 1
    BY <1>1, <2>2
  <2>4. \A k \in 1 .. L : name[k] = d.name[k]
    BY <1>4, <1>5, <1>6, <1>8, <2>1, <2>3
  <2> QED
    BY <2>1, <2>4, SameString DEF L, M
<1> QED
  BY <1>7, <1>8

(* What read_dentry_by_name returns: the file of that name; none; or, for the *)
(* empty name, the first unused dentry.                                       *)
LEMMA Lookup ==
    ASSUME NEW name \in String
    PROVE  /\ ReadDentryByName(name) \in 0 .. DENTRIES_NUM
           /\ ReadDentryByName(name) \in DOMAIN Directory =>
                 Directory[ReadDentryByName(name)].name = name
           /\ \A i \in DOMAIN Directory : Directory[i].name = name => ReadDentryByName(name) = i
           /\ name # <<>> => ReadDentryByName(name) \in DOMAIN Directory \cup {0}
<1> DEFINE found == {i \in 1 .. DENTRIES_NUM : Matches(name, Dentry(i))}
           first == CHOOSE i \in found : \A j \in found : i <= j
<1>1. ReadDentryByName(name) = IF Len(name) > NAME_LENGTH \/ found = {} THEN 0 ELSE first
  BY DEF ReadDentryByName
<1>2. DENTRIES_NUM \in Nat /\ Len(name) \in Nat /\ NAME_LENGTH \in Nat
  BY OpenFilesAssumption DEF String
<1>3. CASE Len(name) > NAME_LENGTH
  <2>1. ReadDentryByName(name) = 0
    BY <1>1, <1>3
  <2>2. 0 \notin DOMAIN Directory
    BY DirectoryFacts
  <2>3. \A i \in DOMAIN Directory : Directory[i].name # name
    BY <1>2, <1>3, DirectoryFacts
  <2> QED
    BY <1>2, <2>1, <2>2, <2>3
<1>4. CASE ~(Len(name) > NAME_LENGTH)
  <2>1. Len(name) <= NAME_LENGTH
    BY <1>2, <1>4
  <2>2. \A i \in DOMAIN Directory : i \in found <=> Directory[i].name = name
    <3> SUFFICES ASSUME NEW i \in DOMAIN Directory
                 PROVE  Matches(name, Dentry(i)) <=> Directory[i].name = name
      BY DirectoryFacts
    <3>1. /\ Dentry(i) = Directory[i] /\ Dentry(i).name \in String /\ Dentry(i).type \in Type
          /\ Len(Dentry(i).name) \in 0 .. NAME_LENGTH
      BY <1>2, DirectoryFacts
    <3> QED
      BY <2>1, <3>1, MatchIsEqual
  <2>3. \A i \in 1 .. DENTRIES_NUM : i \notin DOMAIN Directory => (i \in found <=> name = <<>>)
    <3> SUFFICES ASSUME NEW i \in 1 .. DENTRIES_NUM, i \notin DOMAIN Directory
                 PROVE  Matches(name, Dentry(i)) <=> name = <<>>
      OBVIOUS
    <3>1. /\ Dentry(i).name = <<>> /\ Dentry(i).type = 0
      BY DirectoryFacts
    <3>2. <<>> \in String /\ Len(<<>>) \in 0 .. NAME_LENGTH /\ 0 \in Type
      BY <1>2 DEF String, Type
    <3> QED
      BY <2>1, <3>1, <3>2, MatchIsEqual
  <2>4. CASE name = <<>>
    <3> DEFINE u == Len(Directory) + 1
    <3>1. u \in 1 .. DENTRIES_NUM /\ u \notin DOMAIN Directory
      BY <1>2, OpenFilesAssumption, DirectoryFacts
    <3>2. u \in found
      BY <2>3, <2>4, <3>1
    <3>3. \A j \in found : j \in 1 .. DENTRIES_NUM /\ j \notin DOMAIN Directory
      BY <2>2, <2>4, DirectoryFacts
    <3>4. \A j \in found : u <= j
      BY <3>3, <1>2, DirectoryFacts
    <3>5. first \in found
      BY <3>2, <3>4
    <3>6. ReadDentryByName(name) = first
      BY <1>1, <1>4, <3>2
    <3>7. \A i \in DOMAIN Directory : Directory[i].name # name
      BY <2>4, DirectoryFacts
    <3>8. ReadDentryByName(name) \in 1 .. DENTRIES_NUM /\ ReadDentryByName(name) \notin DOMAIN Directory
      BY <3>3, <3>5, <3>6
    <3> QED
      BY <2>4, <3>7, <3>8, <1>2
  <2>5. CASE name # <<>>
    <3>1. \A i \in found : i \in DOMAIN Directory /\ Directory[i].name = name
      BY <2>2, <2>3, <2>5
    <3>2. \A i, j \in found : i = j
      BY <3>1, OpenFilesAssumption
    <3>3. CASE found = {}
      <4>1. ReadDentryByName(name) = 0
        BY <1>1, <3>3
      <4>2. 0 \notin DOMAIN Directory
        BY DirectoryFacts
      <4> QED
        BY <1>2, <2>2, <3>3, <4>1, <4>2
    <3>4. CASE found # {}
      <4>1. PICK i \in found : TRUE
        BY <3>4
      <4>2. \A j \in found : i <= j
        BY <3>2, <1>2
      <4>3. first \in found
        BY <4>1, <4>2
      <4>4. ReadDentryByName(name) = first
        BY <1>1, <1>4, <3>4
      <4> QED
        BY <2>2, <3>1, <3>2, <4>3, <4>4, DirectoryFacts
    <3> QED
      BY <3>3, <3>4
  <2> QED
    BY <2>4, <2>5
<1> QED
  BY <1>3, <1>4

(* A set of natural numbers has a least element.                              *)
LEMMA Least ==
    ASSUME NEW S, S \subseteq Nat, S # {}
    PROVE  \E m \in S : \A k \in S : m <= k
<1> DEFINE R == {p \in Nat \X Nat : p[1] < p[2]}
<1>1. IsWellFoundedOn(R, Nat)
  BY NatLessThanWellFounded DEF OpToRel
<1>2. PICK m \in S : \A k \in S : ~(<<k, m>> \in R)
  <2> HIDE DEF R
  <2> QED
    BY <1>1, WFMin
<1>3. \A k \in S : ~(k < m)
  BY <1>2
<1> QED
  BY <1>3

(* The place of the first space.                                              *)
LEMMA FirstSpaceFacts ==
    ASSUME NEW c \in String
    PROVE  /\ FirstSpace(c) \in 1 .. Len(c) + 1
           /\ FirstSpace(c) <= Len(c) => c[FirstSpace(c)] = SPACE
           /\ \A j \in 1 .. FirstSpace(c) - 1 : c[j] # SPACE
<1> DEFINE P(k) == /\ k <= Len(c) => c[k] = SPACE
                   /\ \A j \in 1 .. k - 1 : c[j] # SPACE
           S == {k \in 1 .. Len(c) + 1 : k <= Len(c) => c[k] = SPACE}
<1>1. Len(c) \in Nat
  BY DEF String
<1>2. Len(c) + 1 \in S /\ S \subseteq Nat
  BY <1>1
<1>3. PICK m \in S : \A k \in S : m <= k
  BY <1>2, Least
<1>4. \A j \in 1 .. m - 1 : c[j] # SPACE
  BY <1>1, <1>3
<1>5. \E k \in 1 .. Len(c) + 1 : P(k)
  BY <1>3, <1>4
<1>6. FirstSpace(c) = CHOOSE k \in 1 .. Len(c) + 1 : P(k)
  BY DEF FirstSpace
<1> HIDE DEF P
<1>7. FirstSpace(c) \in 1 .. Len(c) + 1 /\ P(FirstSpace(c))
  BY <1>5, <1>6
<1> QED
  BY <1>7 DEF P

(* A command is its name, the first space and its arguments.                  *)
LEMMA CommandParts ==
    ASSUME NEW c \in String
    PROVE  /\ NameOf(c) \in String
           /\ ArgsOf(c) \in String \cup {NONE}
           /\ c = IF ArgsOf(c) # NONE THEN NameOf(c) \o <<SPACE>> \o ArgsOf(c)
                  ELSE IF SPACE \in ToSet(c) THEN Append(NameOf(c), SPACE)
                  ELSE NameOf(c)
<1> DEFINE k == FirstSpace(c)
<1>1. /\ k \in 1 .. Len(c) + 1 /\ Len(c) \in Nat
      /\ k <= Len(c) => c[k] = SPACE
      /\ \A j \in 1 .. k - 1 : c[j] # SPACE
  BY FirstSpaceFacts DEF String
<1>2. /\ SPACE \in Nat \ {0} /\ NONE \notin String
  BY OpenFilesAssumption
<1> HIDE DEF k
<1>3. c \in Seq(Nat \ {0}) /\ DOMAIN c = 1 .. Len(c)
  BY DEF String
<1>4. /\ SubSeq(c, 1, k - 1) \in Seq(Nat \ {0})
      /\ Len(SubSeq(c, 1, k - 1)) = k - 1
      /\ \A i \in 1 .. k - 1 : SubSeq(c, 1, k - 1)[i] = c[i]
  BY <1>1, <1>3
<1>5. NameOf(c) = SubSeq(c, 1, k - 1)
  BY DEF NameOf, k
<1>6. CASE k < Len(c)
  <2>1. /\ SubSeq(c, k + 1, Len(c)) \in Seq(Nat \ {0})
        /\ Len(SubSeq(c, k + 1, Len(c))) = Len(c) - k
        /\ \A i \in 1 .. Len(c) - k : SubSeq(c, k + 1, Len(c))[i] = c[i + k]
    <3>1. /\ k + 1 \in Int /\ Len(c) \in Int /\ k + 1 <= Len(c)
          /\ \A i \in k + 1 .. Len(c) : c[i] \in Nat \ {0}
      BY <1>1, <1>3, <1>6
    <3>2. /\ SubSeq(c, k + 1, Len(c)) \in Seq(Nat \ {0})
          /\ Len(SubSeq(c, k + 1, Len(c))) = Len(c) - (k + 1) + 1
          /\ \A i \in 1 .. Len(c) - (k + 1) + 1 : SubSeq(c, k + 1, Len(c))[i] = c[k + 1 + i - 1]
      BY <3>1, SubSeqProperties
    <3>3. \A i \in 1 .. Len(c) - k : SubSeq(c, k + 1, Len(c))[i] = c[i + k]
      <4> TAKE i \in 1 .. Len(c) - k
      <4>1. k + 1 + i - 1 = i + k /\ i \in 1 .. Len(c) - (k + 1) + 1
        BY <1>1
      <4> QED
        BY <3>2, <4>1
    <3>4. Len(c) - (k + 1) + 1 = Len(c) - k
      BY <1>1
    <3> QED
      BY <3>2, <3>3, <3>4
  <2>2. ArgsOf(c) = SubSeq(c, k + 1, Len(c))
    <3>1. ~(k >= Len(c))
      BY <1>1, <1>6
    <3> QED
      BY <3>1 DEF ArgsOf, k
  <2>3. ArgsOf(c) \in String /\ ArgsOf(c) # NONE
    BY <1>2, <2>1, <2>2 DEF String
  <2> DEFINE n == SubSeq(c, 1, k - 1)
             a == SubSeq(c, k + 1, Len(c))
             v == n \o <<SPACE>>
             w == v \o a
  <2>4. n \in Seq(Nat \ {0}) /\ a \in Seq(Nat \ {0}) /\ Len(n) = k - 1 /\ Len(a) = Len(c) - k
    BY <1>4, <2>1
  <2> HIDE DEF n, a
  <2>5. /\ v \in Seq(Nat \ {0}) /\ Len(v) = k /\ v[k] = SPACE
        /\ \A i \in 1 .. k - 1 : v[i] = n[i]
    <3> DEFINE e == <<SPACE>>
    <3>1. e \in Seq(Nat \ {0}) /\ Len(e) = 1 /\ e[1] = SPACE
      BY <1>2
    <3> HIDE DEF e
    <3>2. /\ n \o e \in Seq(Nat \ {0})
          /\ Len(n \o e) = Len(n) + Len(e)
          /\ \A i \in 1 .. Len(n) + Len(e) : (n \o e)[i] = IF i <= Len(n) THEN n[i] ELSE e[i - Len(n)]
      BY <2>4, <3>1, ConcatProperties
    <3>3. Len(n) + Len(e) = k /\ k \in 1 .. k /\ ~(k <= Len(n)) /\ k - Len(n) = 1
      BY <1>1, <2>4, <3>1
    <3>4. \A i \in 1 .. k - 1 : i \in 1 .. k /\ i <= Len(n)
      BY <1>1, <2>4
    <3>5. (n \o e)[k] = SPACE /\ \A i \in 1 .. k - 1 : (n \o e)[i] = n[i]
      BY <3>1, <3>2, <3>3, <3>4
    <3> QED
      BY <3>2, <3>3, <3>5 DEF e
  <2> HIDE DEF v
  <2>8. /\ w \in Seq(Nat \ {0}) /\ Len(w) = Len(c)
        /\ \A i \in 1 .. Len(c) : w[i] = IF i <= k THEN v[i] ELSE a[i - k]
    <3>1. /\ v \o a \in Seq(Nat \ {0})
          /\ Len(v \o a) = Len(v) + Len(a)
          /\ \A i \in 1 .. Len(v) + Len(a) : (v \o a)[i] = IF i <= Len(v) THEN v[i] ELSE a[i - Len(v)]
      BY <2>4, <2>5, ConcatProperties
    <3>2. Len(v) + Len(a) = Len(c)
      BY <1>1, <2>4, <2>5
    <3> QED
      BY <2>5, <3>1, <3>2
  <2> HIDE DEF w
  <2>6. ASSUME NEW i \in 1 .. Len(c) PROVE w[i] = c[i]
    <3>1. CASE i < k
      <4>1. i \in 1 .. k - 1 /\ i <= k
        BY <1>1, <3>1
      <4> QED
        BY <1>4, <2>5, <2>8, <4>1 DEF n
    <3>2. CASE i = k
      BY <1>1, <2>5, <2>8, <3>2
    <3>3. CASE i > k
      <4>1. i - k \in 1 .. Len(c) - k /\ i - k + k = i /\ ~(i <= k)
        BY <1>1, <3>3
      <4>2. a[i - k] = c[i - k + k]
        BY <2>1, <4>1 DEF a
      <4> QED
        BY <2>8, <4>1, <4>2
    <3> QED
      BY <1>1, <3>1, <3>2, <3>3
  <2>7. c = w
    BY <2>6, <2>8, SameString DEF String
  <2> QED
    BY <1>4, <1>5, <2>2, <2>3, <2>7 DEF String, n, a, v, w
<1>7. CASE k = Len(c)
  <2>1. ArgsOf(c) = NONE
    BY <1>1, <1>7 DEF ArgsOf, k
  <2>2. SPACE \in ToSet(c)
    BY <1>1, <1>3, <1>7 DEF ToSet
  <2> DEFINE n == SubSeq(c, 1, k - 1)
             w == Append(n, SPACE)
  <2>3. n \in Seq(Nat \ {0}) /\ Len(n) = Len(c) - 1 /\ \A i \in 1 .. Len(c) - 1 : n[i] = c[i]
    BY <1>4, <1>7
  <2> HIDE DEF n
  <2>4. w \in Seq(Nat \ {0}) /\ Len(w) = Len(c)
    BY <1>1, <1>2, <2>3
  <2>5. \A i \in 1 .. Len(c) : w[i] = c[i]
    BY <1>1, <1>2, <1>7, <2>3
  <2>6. c = w
    BY <2>4, <2>5, SameString DEF String
  <2> QED
    BY <1>4, <1>5, <2>1, <2>2, <2>6 DEF String, n
<1>8. CASE k = Len(c) + 1
  <2>1. ArgsOf(c) = NONE
    BY <1>1, <1>8 DEF ArgsOf, k
  <2>2. SPACE \notin ToSet(c)
    BY <1>1, <1>3, <1>8 DEF ToSet
  <2>3. c = SubSeq(c, 1, k - 1)
    BY <1>1, <1>4, <1>8, SameString DEF String
  <2> QED
    BY <1>4, <1>5, <2>1, <2>2, <2>3 DEF String
<1> QED
  BY <1>1, <1>6, <1>7, <1>8

(* The command "shell" names the shell and has no arguments.                  *)
LEMMA ShellFacts ==
    /\ Shell \in String
    /\ NameOf(Shell) = Shell /\ ArgsOf(Shell) = NONE
    /\ ReadDentryByName(Shell) \in Executables
<1>1. PICK i \in Executables : Directory[i].name = Shell
  BY OpenFilesAssumption
<1>2. i \in DOMAIN Directory /\ Shell \in String /\ SPACE \notin ToSet(Shell)
  BY <1>1, OpenFilesAssumption, DirectoryFacts
<1>3. ReadDentryByName(Shell) = i
  BY <1>1, <1>2, Lookup
<1>4. FirstSpace(Shell) = Len(Shell) + 1
  BY <1>2, FirstSpaceFacts DEF String, ToSet
<1>5. ArgsOf(Shell) = NONE
  BY <1>2, <1>4 DEF ArgsOf, String
<1>6. NameOf(Shell) = Shell
  BY <1>2, <1>5, CommandParts
<1> QED
  BY <1>1, <1>2, <1>3, <1>5, <1>6

-----------------------------------------------------------------------------
(* Descriptors of any kind.                                                   *)
Descriptor ==
    [ops : Type \cup {NONE, STDIN, STDOUT}, dentry : 0 .. DENTRIES_NUM,
     offset : 0 .. Len(Directory) + 1, asked : String \cup {NONE},
     listed : Seq(String), done : BOOLEAN]

(* A descriptor that is not the terminal's: if open, it belongs to the file   *)
(* it was opened as; what its reads listed is what lies before its offset.    *)
DescInv(d) ==
    /\ d.ops \in Type \cup {NONE}
    /\ d.ops = NONE => d = Inactive
    /\ d.ops # NONE =>
          \E i \in DOMAIN Directory :
              /\ Directory[i].name = d.asked
              /\ Directory[i].type = d.ops
              /\ d.ops \notin {RTC, DIR} => d.dentry = i
    /\ Len(d.listed) = IF d.offset <= Len(Directory) THEN d.offset ELSE Len(Directory)
    /\ \A i \in DOMAIN d.listed : d.listed[i] = Directory[i].name
    /\ d.done => d.offset > Len(Directory)

TableInv ==
    /\ fd_table \in [Terminals -> [Slots -> [Fd -> Descriptor]]]
    /\ \A t \in Terminals, k \in Slots :
          /\ fd_table[t][k][0] = Stdin /\ fd_table[t][k][1] = Stdout
          /\ \A fd \in 2 .. FD_TABLE_SIZE - 1 : DescInv(fd_table[t][k][fd])

(* Every program was found by the name in its command.                        *)
ProgramInv ==
    /\ current_terminal \in Terminals
    /\ depth \in [Terminals -> Slots]
    /\ runs \in [Terminals -> [Slots -> Executables]]
    /\ command \in [Terminals -> [Slots -> Commands \cup {Shell}]]
    /\ args \in [Terminals -> [Slots -> String \cup {NONE}]]
    /\ \A t \in Terminals, k \in Slots :
          /\ runs[t][k] = ReadDentryByName(NameOf(command[t][k]))
          /\ args[t][k] = ArgsOf(command[t][k])
    /\ arg_command \in {ArgsOf(c) : c \in Commands} \cup {NONE}

(* The shared dentry is that of the open that is half done; there is one.     *)
LookupInv ==
    /\ opening \in [Terminals -> Names \cup {NONE}]
    /\ syscall_open_dentry \in 0 .. DENTRIES_NUM
    /\ \A t \in Terminals : opening[t] # NONE =>
          /\ syscall_open_dentry \in DOMAIN Directory
          /\ Directory[syscall_open_dentry].name = opening[t]
          /\ \A u \in Terminals : u # t => opening[u] = NONE
    /\ missed = {}

OpenFilesInv == TableInv /\ ProgramInv /\ LookupInv

NoWindows == Hazards = {}

(* The sizes of the tables and the kinds of descriptors.                      *)
LEMMA SizeFacts ==
    /\ NumTerminals \in Nat \ {0} /\ MaxDepth \in Nat \ {0}
    /\ FD_TABLE_SIZE \in Nat \ {0, 1} /\ DENTRIES_NUM \in Nat
    /\ NONE \notin String /\ NONE \notin 0 .. 4
    /\ Names \subseteq String /\ Commands \cup {Shell} \subseteq String
    /\ Executables \subseteq DOMAIN Directory
    /\ \A i \in Executables : i \in 1 .. DENTRIES_NUM /\ Directory[i].type = 2
BY OpenFilesAssumption, ShellFacts, DirectoryFacts

(* The table of a new program.                                                *)
LEMMA FreshFacts ==
    /\ Inactive \in Descriptor /\ DescInv(Inactive)
    /\ FreshTable \in [Fd -> Descriptor]
    /\ FreshTable[0] = Stdin /\ FreshTable[1] = Stdout
    /\ \A fd \in 2 .. FD_TABLE_SIZE - 1 : FreshTable[fd] = Inactive
<1>1. Len(Directory) \in Nat /\ <<>> \in Seq(String) /\ Len(<<>>) = 0 /\ DOMAIN <<>> = {}
  BY DirectoryFacts
<1>2. Inactive \in Descriptor
  BY <1>1, SizeFacts DEF Inactive, Descriptor
<1>3. DescInv(Inactive)
  BY <1>1, SizeFacts DEF Inactive, DescInv
<1>4. Stdin \in Descriptor /\ Stdout \in Descriptor
  BY <1>2 DEF Descriptor, Stdin, Stdout
<1>5. 0 \in Fd /\ 1 \in Fd /\ \A fd \in 2 .. FD_TABLE_SIZE - 1 : fd \in Fd /\ fd # 0 /\ fd # 1
  BY SizeFacts DEF Fd
<1>6. \A fd \in Fd : FreshTable[fd] = IF fd = 0 THEN Stdin ELSE IF fd = 1 THEN Stdout ELSE Inactive
  BY DEF FreshTable
<1>7. FreshTable \in [Fd -> Descriptor]
  BY <1>2, <1>4 DEF FreshTable
<1> QED
  BY <1>2, <1>3, <1>5, <1>6, <1>7

(* The initial state satisfies the invariant.                                 *)
LEMMA InitInv == Init => OpenFilesInv
<1> SUFFICES ASSUME Init PROVE OpenFilesInv
  OBVIOUS
<1>1. TableInv
  BY FreshFacts DEF Init, TableInv
<1>2. ProgramInv
  <2>1. 0 \in Terminals /\ 1 \in Slots
    BY SizeFacts DEF Terminals, Slots
  <2>2. ReadDentryByName(NameOf(Shell)) = ReadDentryByName(Shell)
    BY ShellFacts
  <2> QED
    BY <2>1, <2>2, ShellFacts DEF Init, ProgramInv
<1>3. LookupInv
  BY SizeFacts DEF Init, LookupInv
<1> QED
  BY <1>1, <1>2, <1>3 DEF OpenFilesInv

(* Writing one descriptor of the program that runs.                           *)
LEMMA SetDescriptorInv ==
    ASSUME TableInv, ProgramInv,
           NEW fd \in 2 .. FD_TABLE_SIZE - 1, NEW d \in Descriptor, DescInv(d),
           SetDescriptor(fd, d)
    PROVE  TableInv'
<1> DEFINE c == current_terminal
           k == depth[current_terminal]
<1>1. c \in Terminals /\ k \in Slots /\ fd \in Fd /\ fd # 0 /\ fd # 1
  BY SizeFacts DEF ProgramInv, Fd
<1>2. fd_table' = [fd_table EXCEPT ![c][k][fd] = d]
  BY DEF SetDescriptor
<1> HIDE DEF c, k
<1>3. fd_table' \in [Terminals -> [Slots -> [Fd -> Descriptor]]]
  BY <1>1, <1>2 DEF TableInv
<1>4. ASSUME NEW t \in Terminals, NEW j \in Slots, NEW f \in Fd
      PROVE  fd_table'[t][j][f] = IF t = c /\ j = k /\ f = fd THEN d ELSE fd_table[t][j][f]
  BY <1>1, <1>2 DEF TableInv
<1>5. 0 \in Fd /\ 1 \in Fd /\ 2 .. FD_TABLE_SIZE - 1 \subseteq Fd
  BY SizeFacts DEF Fd
<1>6. ASSUME NEW t \in Terminals, NEW j \in Slots
      PROVE  /\ fd_table'[t][j][0] = Stdin /\ fd_table'[t][j][1] = Stdout
             /\ \A f \in 2 .. FD_TABLE_SIZE - 1 : DescInv(fd_table'[t][j][f])
  <2>1. fd_table'[t][j][0] = fd_table[t][j][0] /\ fd_table'[t][j][1] = fd_table[t][j][1]
    BY <1>1, <1>4, <1>5
  <2>2. ASSUME NEW f \in 2 .. FD_TABLE_SIZE - 1
        PROVE  DescInv(fd_table'[t][j][f])
    <3>1. fd_table'[t][j][f] \in {d, fd_table[t][j][f]}
      BY <1>4, <1>5
    <3> QED
      BY <3>1 DEF TableInv
  <2> QED
    BY <2>1, <2>2 DEF TableInv
<1> QED
  BY <1>3, <1>6 DEF TableInv

(* The descriptors of the program that runs.                                  *)
LEMMA OwnTable ==
    ASSUME TableInv, ProgramInv
    PROVE  /\ Table \in [Fd -> Descriptor]
           /\ \A fd \in Fd : Table[fd].ops \in Type \cup {NONE} => fd \in 2 .. FD_TABLE_SIZE - 1
           /\ \A fd \in 2 .. FD_TABLE_SIZE - 1 : DescInv(Table[fd])
<1>1. current_terminal \in Terminals /\ depth[current_terminal] \in Slots
  BY DEF ProgramInv
<1>2. Table[0] = Stdin /\ Table[1] = Stdout
  BY <1>1 DEF TableInv, Table
<1>3. Stdin.ops \notin Type \cup {NONE} /\ Stdout.ops \notin Type \cup {NONE}
  BY SizeFacts DEF Stdin, Stdout, Inactive, STDIN, STDOUT, Type
<1>4. \A fd \in Fd : fd \notin 2 .. FD_TABLE_SIZE - 1 => fd = 0 \/ fd = 1
  BY SizeFacts DEF Fd
<1> QED
  BY <1>1, <1>2, <1>3, <1>4 DEF TableInv, Table

-----------------------------------------------------------------------------
(* sys_open leaves the found dentry to its second half, and misses no file.   *)
LEMMA OpenLookupInv ==
    ASSUME NoWindows, OpenFilesInv, NEW name \in Names, OpenLookup(name)
    PROVE  OpenFilesInv'
<1>1. TableInv' /\ ProgramInv'
  BY DEF OpenLookup, programs, OpenFilesInv, TableInv, ProgramInv
<1>2. current_terminal \in Terminals /\ \A t \in Terminals : opening[t] = NONE
  BY DEF OpenLookup, OpenFilesInv, ProgramInv, NoWindows
<1>3. name \in String /\ name # NONE
  BY SizeFacts
<1> DEFINE i == IF name = <<>> THEN 0 ELSE ReadDentryByName(name)
<1>4. i \in DOMAIN Directory \cup {0} /\ 0 \notin DOMAIN Directory
  BY <1>3, Lookup, DirectoryFacts
<1>5. CASE i = 0
  <2>1. \A k \in DOMAIN Directory : Directory[k].name # name
    BY <1>3, <1>4, <1>5, Lookup, DirectoryFacts
  <2>2. {name} \cap {d.name : d \in ToSet(Directory)} = {}
    BY <2>1 DEF ToSet
  <2>3. missed' = missed /\ UNCHANGED <<opening, syscall_open_dentry>>
    BY <1>5, <2>2 DEF OpenLookup
  <2> QED
    BY <1>1, <2>3 DEF OpenFilesInv, LookupInv
<1>6. CASE i # 0
  <2>1. i \in DOMAIN Directory /\ Directory[i].name = name /\ i \in 0 .. DENTRIES_NUM
    BY <1>3, <1>4, <1>6, Lookup
  <2>2. /\ syscall_open_dentry' = i /\ missed' = missed
        /\ opening' = [opening EXCEPT ![current_terminal] = name]
    BY <1>6 DEF OpenLookup
  <2>3. opening' \in [Terminals -> Names \cup {NONE}]
    BY <2>2 DEF OpenFilesInv, LookupInv
  <2>4. \A t \in Terminals : opening'[t] = IF t = current_terminal THEN name ELSE NONE
    BY <1>2, <2>2 DEF OpenFilesInv, LookupInv
  <2> HIDE DEF i
  <2> QED
    BY <1>1, <2>1, <2>2, <2>3, <2>4 DEF OpenFilesInv, LookupInv
<1> QED
  BY <1>5, <1>6

(* The descriptor sys_open takes is one that is closed.                       *)
LEMMA FirstInactiveFacts ==
    ASSUME TableInv, ProgramInv
    PROVE  \/ FirstInactive = FD_TABLE_SIZE
           \/ FirstInactive \in 2 .. FD_TABLE_SIZE - 1 /\ Table[FirstInactive].ops = NONE
<1>1. CASE InactiveFds = {}
  BY <1>1 DEF FirstInactive
<1>2. CASE InactiveFds # {}
  <2>1. InactiveFds \subseteq Nat
    BY SizeFacts DEF InactiveFds, Fd
  <2>2. FirstInactive \in InactiveFds
    BY <1>2, <2>1, Least DEF FirstInactive
  <2> QED
    BY <2>2, OwnTable DEF InactiveFds
<1> QED
  BY <1>1, <1>2

(* A file opened twice over by name is the same file both times.              *)
LEMMA OpenEntryInv ==
    ASSUME OpenFilesInv, OpenEntry
    PROVE  OpenFilesInv'
<1> DEFINE name == opening[current_terminal]
           i    == syscall_open_dentry
           d    == [Inactive EXCEPT !.ops = Dentry(i).type,
                                    !.dentry = IF Dentry(i).type = RTC THEN 0 ELSE DentryOfOpen(name),
                                    !.asked = name]
<1>1. current_terminal \in Terminals /\ name # NONE
  BY DEF OpenEntry, OpenFilesInv, ProgramInv
<1>2. /\ i \in DOMAIN Directory /\ Directory[i].name = name /\ Dentry(i) = Directory[i]
      /\ Directory[i].type \in Type /\ name \in String /\ i \in 0 .. DENTRIES_NUM
  BY <1>1, SizeFacts, DirectoryFacts DEF OpenFilesInv, LookupInv
<1>3. DentryOfOpen(name) = i
  BY <1>2, Lookup DEF DentryOfOpen
<1>4. /\ d \in Descriptor /\ d.ops = Directory[i].type /\ d.asked = name
      /\ d.dentry = IF Directory[i].type = RTC THEN 0 ELSE i
      /\ d.listed = <<>> /\ d.offset = 0 /\ d.done = FALSE
  <2>1. d = [Inactive EXCEPT !.ops = Directory[i].type,
                             !.dentry = IF Directory[i].type = RTC THEN 0 ELSE i,
                             !.asked = name]
    BY <1>2, <1>3
  <2>2. Inactive.listed = <<>> /\ Inactive.offset = 0 /\ Inactive.done = FALSE
    BY DEF Inactive
  <2>3. 0 \in 0 .. DENTRIES_NUM
    BY SizeFacts
  <2> HIDE DEF d
  <2> QED
    BY <1>2, <2>1, <2>2, <2>3, FreshFacts DEF Descriptor
<1>5. DescInv(d)
  <2> HIDE DEF d, i, name
  <2>1. <<>> = d.listed /\ Len(<<>>) = 0 /\ DOMAIN <<>> = {}
    BY <1>4
  <2> QED
    BY <1>2, <1>4, <2>1, SizeFacts, DirectoryFacts DEF DescInv, Type
<1>6. TableInv'
  <2>1. CASE FirstInactive = FD_TABLE_SIZE
    BY <2>1 DEF OpenEntry, OpenFilesInv, TableInv
  <2>2. CASE FirstInactive # FD_TABLE_SIZE
    <3>1. SetDescriptor(FirstInactive, d)
      BY <2>2 DEF OpenEntry
    <3>2. FirstInactive \in 2 .. FD_TABLE_SIZE - 1
      BY <2>2, FirstInactiveFacts DEF OpenFilesInv
    <3> HIDE DEF d
    <3> QED
      BY <1>4, <1>5, <3>1, <3>2, SetDescriptorInv DEF OpenFilesInv
  <2> QED
    BY <2>1, <2>2
<1>7. ProgramInv'
  BY DEF OpenEntry, programs, OpenFilesInv, ProgramInv
<1>8. LookupInv'
  BY DEF OpenEntry, OpenFilesInv, LookupInv
<1> QED
  BY <1>6, <1>7, <1>8 DEF OpenFilesInv

(* sys_close clears a descriptor.                                             *)
LEMMA CloseInv ==
    ASSUME OpenFilesInv, NEW fd \in Fd, Close(fd)
    PROVE  OpenFilesInv'
<1>1. fd \in 2 .. FD_TABLE_SIZE - 1 /\ SetDescriptor(fd, Inactive)
  BY SizeFacts DEF Close, CanClose, Fd
<1>2. TableInv'
  BY <1>1, FreshFacts, SetDescriptorInv DEF OpenFilesInv
<1> QED
  BY <1>2 DEF Close, programs, OpenFilesInv, ProgramInv, LookupInv

(* A read of a directory changes the offset and what is listed.               *)
LEMMA ReadDescriptor ==
    ASSUME NEW d \in Descriptor, DescInv(d), d.ops = DIR,
           NEW i \in 0 .. DENTRIES_NUM, NEW o \in 0 .. Len(Directory) + 1,
           NEW l \in Seq(String), NEW b \in BOOLEAN,
           Len(l) = IF o <= Len(Directory) THEN o ELSE Len(Directory),
           \A k \in DOMAIN l : l[k] = Directory[k].name,
           b => o > Len(Directory),
           NEW e, e = [d EXCEPT !.dentry = i, !.offset = o, !.listed = l, !.done = b]
    PROVE  e \in Descriptor /\ DescInv(e)
<1>1. e \in Descriptor
  BY DEF Descriptor
<1>2. /\ e.ops = d.ops /\ e.dentry = i /\ e.offset = o /\ e.asked = d.asked
      /\ e.listed = l /\ e.done = b
  BY DEF Descriptor
<1>3. d.ops # NONE /\ d.ops \in {RTC, DIR}
  BY SizeFacts DEF DIR
<1> QED
  BY <1>1, <1>2, <1>3 DEF DescInv

(* read_dir lists the file behind the last one it listed.                     *)
LEMMA ReadDirInv ==
    ASSUME OpenFilesInv, NEW fd \in Fd, ReadDir(fd)
    PROVE  OpenFilesInv'
<1> DEFINE d == Table[fd]
           o == d.offset
           name == Dentry(IndexAt(d.offset)).name
           more == [d EXCEPT !.dentry = IndexAt(d.offset),
                             !.offset = @ + 1,
                             !.listed = IF name = <<>> THEN @ ELSE Append(@, name),
                             !.done = @ \/ name = <<>>]
           last == [d EXCEPT !.done = TRUE]
<1>1. d.ops = DIR /\ fd \in 2 .. FD_TABLE_SIZE - 1 /\ d \in Descriptor /\ DescInv(d)
  <2>1. d.ops = DIR /\ DIR \in Type
    BY DEF ReadDir, DIR, Type
  <2> QED
    BY <2>1, OwnTable DEF OpenFilesInv
<1>2. /\ o \in 0 .. Len(Directory) + 1 /\ Len(Directory) \in Nat /\ Len(Directory) < DENTRIES_NUM
      /\ d.listed \in Seq(String) /\ d.done \in BOOLEAN /\ DENTRIES_NUM \in Nat
  BY <1>1, DirectoryFacts, OpenFilesAssumption DEF Descriptor
<1>3. SetDescriptor(fd, IF d.offset > Len(Directory) THEN last ELSE more)
  BY DEF ReadDir
<1> HIDE DEF d
<1>4. CASE o > Len(Directory)
  <2>1. last = [d EXCEPT !.dentry = d.dentry, !.offset = o, !.listed = d.listed, !.done = TRUE]
    BY <1>1 DEF Descriptor
  <2>2. d.dentry \in 0 .. DENTRIES_NUM /\ TRUE \in BOOLEAN
    BY <1>1 DEF Descriptor
  <2>3. SetDescriptor(fd, last)
    BY <1>3, <1>4
  <2> HIDE DEF last
  <2>4. /\ Len(d.listed) = IF o <= Len(Directory) THEN o ELSE Len(Directory)
        /\ \A k \in DOMAIN d.listed : d.listed[k] = Directory[k].name
    BY <1>1 DEF DescInv
  <2>5. last \in Descriptor /\ DescInv(last)
    BY <1>1, <1>2, <1>4, <2>1, <2>2, <2>4, ReadDescriptor
  <2> QED
    BY <1>1, <2>3, <2>5, SetDescriptorInv
       DEF ReadDir, programs, OpenFilesInv, ProgramInv, LookupInv
<1>5. CASE ~(o > Len(Directory))
  <2>1. SetDescriptor(fd, more)
    BY <1>3, <1>5
  <2>2. /\ IndexAt(o) \in 1 .. DENTRIES_NUM /\ IndexAt(o) = o + 1 /\ o + 1 \in 0 .. Len(Directory) + 1
        /\ o + 1 \in 0 .. DENTRIES_NUM
    BY <1>2, <1>5 DEF IndexAt
  <2>3. CASE o = Len(Directory)
    <3>1. name = <<>>
      BY <2>2, <2>3, <1>2, DirectoryFacts
    <3>2. more = [d EXCEPT !.dentry = o + 1, !.offset = o + 1, !.listed = d.listed, !.done = TRUE]
      BY <1>1, <2>2, <3>1 DEF Descriptor
    <3> HIDE DEF more
    <3>3. /\ Len(d.listed) = Len(Directory) /\ ~(o + 1 <= Len(Directory)) /\ o + 1 > Len(Directory)
          /\ \A k \in DOMAIN d.listed : d.listed[k] = Directory[k].name
      BY <1>1, <1>2, <2>3 DEF DescInv
    <3>4. more \in Descriptor /\ DescInv(more)
      BY <1>1, <1>2, <2>2, <3>2, <3>3, ReadDescriptor
    <3> QED
      BY <1>1, <2>1, <3>4, SetDescriptorInv
         DEF ReadDir, programs, OpenFilesInv, ProgramInv, LookupInv
  <2>4. CASE o < Len(Directory)
    <3> DEFINE l == Append(d.listed, name)
    <3>1. /\ o + 1 \in DOMAIN Directory /\ name = Directory[o + 1].name
          /\ name # <<>> /\ name \in String
      BY <1>2, <2>2, <2>4, DirectoryFacts
    <3>2. more = [d EXCEPT !.dentry = o + 1, !.offset = o + 1, !.listed = l, !.done = d.done]
      BY <1>1, <2>2, <3>1 DEF Descriptor
    <3>3. /\ l \in Seq(String) /\ Len(l) = Len(d.listed) + 1
          /\ \A k \in 1 .. Len(d.listed) : l[k] = d.listed[k]
          /\ l[Len(d.listed) + 1] = name
      BY <1>2, <3>1, AppendProperties
    <3> HIDE DEF more, l
    <3>4. Len(d.listed) = o /\ ~d.done
      BY <1>1, <1>2, <2>4 DEF DescInv
    <3>5. ASSUME NEW k \in DOMAIN l PROVE l[k] = Directory[k].name
      <4>1. k \in 1 .. o \/ k = o + 1
        BY <1>2, <3>3, <3>4
      <4>2. CASE k \in 1 .. o
        <5>1. k \in DOMAIN d.listed /\ l[k] = d.listed[k]
          BY <1>2, <3>3, <3>4, <4>2
        <5> QED
          BY <1>1, <5>1 DEF DescInv
      <4> QED
        BY <3>1, <3>3, <3>4, <4>1, <4>2
    <3>6. o + 1 <= Len(Directory) /\ Len(l) = o + 1
      BY <1>2, <2>4, <3>3, <3>4
    <3>7. more \in Descriptor /\ DescInv(more)
      BY <1>1, <1>2, <2>2, <3>2, <3>3, <3>4, <3>5, <3>6, ReadDescriptor
    <3> QED
      BY <1>1, <2>1, <3>7, SetDescriptorInv
         DEF ReadDir, programs, OpenFilesInv, ProgramInv, LookupInv
  <2> QED
    BY <1>2, <1>5, <2>3, <2>4
<1> QED
  BY <1>4, <1>5

(* sys_execute starts the program that its command names.                     *)
LEMMA StartsInv ==
    ASSUME OpenFilesInv, NEW k \in Slots, NEW c \in Commands \cup {Shell},
           ReadDentryByName(NameOf(c)) \in Executables, Starts(k, c)
    PROVE  OpenFilesInv'
<1>1. current_terminal \in Terminals /\ c \in String
  BY SizeFacts DEF OpenFilesInv, ProgramInv
<1>2. /\ depth' = [depth EXCEPT ![current_terminal] = k]
      /\ runs' = [runs EXCEPT ![current_terminal][k] = ReadDentryByName(NameOf(c))]
      /\ command' = [command EXCEPT ![current_terminal][k] = c]
      /\ args' = [args EXCEPT ![current_terminal][k] = ArgsOf(c)]
      /\ arg_command' = ArgsOf(c)
      /\ current_terminal' = current_terminal
      /\ fd_table' = [fd_table EXCEPT ![current_terminal][k] = FreshTable]
  BY DEF Starts, TableOfNew
<1>3. TableInv'
  <2>1. fd_table' \in [Terminals -> [Slots -> [Fd -> Descriptor]]]
    BY <1>1, <1>2, FreshFacts DEF OpenFilesInv, TableInv
  <2>2. \A t \in Terminals, j \in Slots :
           fd_table'[t][j] = IF t = current_terminal /\ j = k THEN FreshTable ELSE fd_table[t][j]
    BY <1>1, <1>2 DEF OpenFilesInv, TableInv
  <2> QED
    BY <2>1, <2>2, FreshFacts DEF OpenFilesInv, TableInv
<1>4. ProgramInv'
  <2>1. /\ depth' \in [Terminals -> Slots]
        /\ runs' \in [Terminals -> [Slots -> Executables]]
        /\ command' \in [Terminals -> [Slots -> Commands \cup {Shell}]]
    BY <1>1, <1>2 DEF OpenFilesInv, ProgramInv
  <2>2. args' \in [Terminals -> [Slots -> String \cup {NONE}]]
    BY <1>1, <1>2, CommandParts DEF OpenFilesInv, ProgramInv
  <2>3. ASSUME NEW t \in Terminals, NEW j \in Slots
        PROVE  /\ runs'[t][j] = ReadDentryByName(NameOf(command'[t][j]))
               /\ args'[t][j] = ArgsOf(command'[t][j])
    BY <1>1, <1>2 DEF OpenFilesInv, ProgramInv
  <2>4. arg_command' \in {ArgsOf(b) : b \in Commands} \cup {NONE}
    BY <1>2, ShellFacts
  <2> QED
    BY <1>1, <1>2, <2>1, <2>2, <2>3, <2>4 DEF ProgramInv
<1>5. LookupInv'
  BY DEF Starts, OpenFilesInv, LookupInv
<1> QED
  BY <1>3, <1>4, <1>5 DEF OpenFilesInv

(* sys_execute, outside the window "header".                                  *)
LEMMA ExecuteInv ==
    ASSUME NoWindows, OpenFilesInv, NEW c \in Commands, Execute(c)
    PROVE  OpenFilesInv'
<1>1. ReadDentryByName(NameOf(c)) \in Executables
  BY DEF Execute, HeaderAccepted, NoWindows
<1>2. depth[current_terminal] + 1 \in Slots
  BY SizeFacts DEF Execute, OpenFilesInv, ProgramInv, Slots
<1> QED
  BY <1>1, <1>2, StartsInv DEF Execute

(* A sys_execute that fails leaves its arguments to sys_getargs.              *)
LEMMA ExecuteFailsInv ==
    ASSUME OpenFilesInv, NEW c \in Commands, ExecuteFails(c)
    PROVE  OpenFilesInv'
BY DEF ExecuteFails, programs, OpenFilesInv, TableInv, ProgramInv, LookupInv

(* A table all of whose files are closed is that of a new program.            *)
LEMMA AllClosedIsFresh ==
    ASSUME NEW table, table[0] = Stdin, table[1] = Stdout
    PROVE  AllClosed(table) = FreshTable
<1>1. \A fd \in Fd : fd < 2 <=> fd = 0 \/ fd = 1
  BY SizeFacts DEF Fd
<1> QED
  BY <1>1 DEF AllClosed, FreshTable

(* What sys_halt does to the descriptors.                                     *)
LEMMA HaltCloses ==
    ASSUME OpenFilesInv, Halt
    PROVE  fd_table' = [fd_table EXCEPT ![current_terminal][depth[current_terminal]] = FreshTable]
<1>1. current_terminal \in Terminals /\ depth[current_terminal] \in Slots
  BY DEF OpenFilesInv, ProgramInv
<1>2. AllClosed(fd_table[current_terminal][depth[current_terminal]]) = FreshTable
  BY <1>1, AllClosedIsFresh DEF OpenFilesInv, TableInv
<1> QED
  BY <1>1, <1>2 DEF Halt, SlotHaltCloses, OpenFilesInv, TableInv

(* sys_halt: the program's files are closed, its slot is given back.          *)
LEMMA HaltInv ==
    ASSUME OpenFilesInv, Halt
    PROVE  OpenFilesInv'
<1> DEFINE t == current_terminal
           k == depth[t]
<1>1. t \in Terminals /\ k \in Slots /\ k - 1 \in Slots
  BY SizeFacts DEF Halt, OpenFilesInv, ProgramInv, Slots
<1>2. /\ depth' = [depth EXCEPT ![t] = k - 1]
      /\ runs' = [runs EXCEPT ![t][k] = ReadDentryByName(Shell)]
      /\ command' = [command EXCEPT ![t][k] = Shell]
      /\ args' = [args EXCEPT ![t][k] = NONE]
      /\ current_terminal' = t /\ arg_command' = arg_command
  BY DEF Halt
<1>3. fd_table' = [fd_table EXCEPT ![t][k] = FreshTable]
  BY HaltCloses
<1> HIDE DEF t, k
<1>4. TableInv'
  <2>1. fd_table' \in [Terminals -> [Slots -> [Fd -> Descriptor]]]
    BY <1>1, <1>3, FreshFacts DEF OpenFilesInv, TableInv
  <2>2. \A u \in Terminals, j \in Slots :
           fd_table'[u][j] = IF u = t /\ j = k THEN FreshTable ELSE fd_table[u][j]
    <3>1. fd_table \in [Terminals -> [Slots -> [Fd -> Descriptor]]]
      BY DEF OpenFilesInv, TableInv
    <3> QED
      BY <1>1, <1>3, <3>1
  <2>3. ASSUME NEW u \in Terminals, NEW j \in Slots
        PROVE  /\ fd_table'[u][j][0] = Stdin /\ fd_table'[u][j][1] = Stdout
               /\ \A fd \in 2 .. FD_TABLE_SIZE - 1 : DescInv(fd_table'[u][j][fd])
    <3>1. CASE u = t /\ j = k
      BY <2>2, <3>1, FreshFacts
    <3>2. CASE ~(u = t /\ j = k)
      <4>1. fd_table'[u][j] = fd_table[u][j]
        BY <2>2, <3>2
      <4>2. /\ fd_table[u][j][0] = Stdin /\ fd_table[u][j][1] = Stdout
            /\ \A fd \in 2 .. FD_TABLE_SIZE - 1 : DescInv(fd_table[u][j][fd])
        BY DEF OpenFilesInv, TableInv
      <4> QED
        BY <4>1, <4>2
    <3> QED
      BY <3>1, <3>2
  <2> QED
    BY <2>1, <2>3 DEF TableInv, DescInv
<1>5. ProgramInv'
  <2>1. /\ depth' \in [Terminals -> Slots]
        /\ runs' \in [Terminals -> [Slots -> Executables]]
        /\ command' \in [Terminals -> [Slots -> Commands \cup {Shell}]]
        /\ args' \in [Terminals -> [Slots -> String \cup {NONE}]]
    BY <1>1, <1>2, ShellFacts DEF OpenFilesInv, ProgramInv
  <2>2. ASSUME NEW u \in Terminals, NEW j \in Slots
        PROVE  /\ runs'[u][j] = ReadDentryByName(NameOf(command'[u][j]))
               /\ args'[u][j] = ArgsOf(command'[u][j])
    BY <1>1, <1>2, ShellFacts DEF OpenFilesInv, ProgramInv
  <2> QED
    BY <1>1, <1>2, <2>1, <2>2 DEF OpenFilesInv, ProgramInv
<1>6. LookupInv'
  BY DEF Halt, OpenFilesInv, LookupInv
<1> QED
  BY <1>4, <1>5, <1>6 DEF OpenFilesInv

(* The halt of a base shell.                                                  *)
LEMMA HaltBaseShellInv ==
    ASSUME OpenFilesInv, HaltBaseShell
    PROVE  OpenFilesInv'
<1>1. 1 \in Slots /\ ReadDentryByName(NameOf(Shell)) \in Executables
  BY SizeFacts, ShellFacts DEF Slots
<1> QED
  BY <1>1, StartsInv DEF HaltBaseShell

(* A tick goes to the next terminal.                                          *)
LEMMA TickInv ==
    ASSUME OpenFilesInv, Tick
    PROVE  OpenFilesInv'
<1>1. current_terminal' \in Terminals
  BY SizeFacts DEF Tick, OpenFilesInv, ProgramInv, Terminals
<1> QED
  BY <1>1 DEF Tick, programs, OpenFilesInv, TableInv, ProgramInv, LookupInv

(* Every step keeps the invariant.                                            *)
LEMMA StepInv ==
    ASSUME NoWindows, OpenFilesInv, [Next]_vars
    PROVE  OpenFilesInv'
<1>1. CASE UNCHANGED vars
  BY <1>1 DEF vars, programs, OpenFilesInv, TableInv, ProgramInv, LookupInv
<1> QED
  BY <1>1, OpenLookupInv, OpenEntryInv, CloseInv, ReadDirInv, ExecuteInv, ExecuteFailsInv,
     HaltInv, HaltBaseShellInv, TickInv
     DEF Next

-----------------------------------------------------------------------------
(* Outside the windows, tables, programs and half done opens agree with the   *)
(* directory (sys_open, sys_close, sys_read of a directory, sys_execute,      *)
(* sys_halt).                                                                 *)
THEOREM OpenFilesInvariant == NoWindows => (Spec => []OpenFilesInv)
<1> SUFFICES ASSUME NoWindows PROVE Spec => []OpenFilesInv
  OBVIOUS
<1>1. OpenFilesInv /\ [Next]_vars => OpenFilesInv'
  BY StepInv
<1> QED
  BY <1>1, InitInv, PTL DEF Spec

(* Types, outside the windows.                                                *)
THEOREM TypeCorrect == NoWindows => (Spec => []TypeOK)
<1> SUFFICES ASSUME NoWindows PROVE Spec => []TypeOK
  OBVIOUS
<1>1. OpenFilesInv => TypeOK
  <2> SUFFICES ASSUME OpenFilesInv PROVE TypeOK
    OBVIOUS
  <2>1. ASSUME NEW t \in Terminals, NEW k \in Slots
        PROVE  /\ runs[t][k] \in 1 .. DENTRIES_NUM
               /\ command[t][k] \in Commands \cup {Shell}
               /\ DOMAIN fd_table[t][k] = Fd
               /\ fd_table[t][k][0] = Stdin /\ fd_table[t][k][1] = Stdout
    BY SizeFacts DEF OpenFilesInv, ProgramInv, TableInv
  <2>2. ASSUME NEW t \in Terminals, NEW k \in Slots, NEW fd \in 2 .. FD_TABLE_SIZE - 1
        PROVE  /\ fd_table[t][k][fd].ops \in Type \cup {NONE}
               /\ fd_table[t][k][fd].offset \in 0 .. Len(Directory) + 1
    <3>1. fd \in Fd
      BY SizeFacts DEF Fd
    <3>2. fd_table[t][k][fd] \in Descriptor /\ DescInv(fd_table[t][k][fd])
      BY <3>1 DEF OpenFilesInv, TableInv
    <3> QED
      BY <3>2 DEF DescInv, Descriptor
  <2>3. /\ depth \in [Terminals -> 1 .. MaxDepth]
        /\ current_terminal \in Terminals
        /\ opening \in [Terminals -> Names \cup {NONE}]
        /\ syscall_open_dentry \in 0 .. DENTRIES_NUM
        /\ arg_command \in {ArgsOf(c) : c \in Commands} \cup {NONE}
    BY DEF OpenFilesInv, ProgramInv, LookupInv, Slots
  <2> QED
    BY <2>1, <2>2, <2>3 DEF TypeOK
<1> QED
  BY <1>1, OpenFilesInvariant, PTL

(* The type of the file of a name.                                            *)
LEMMA TypeOfFile ==
    ASSUME NEW i \in DOMAIN Directory
    PROVE  /\ Directory[i].name \in FileNames
           /\ TypeOf(Directory[i].name) = Directory[i].type
<1>1. Directory[i] \in ToSet(Directory)
  BY DEF ToSet
<1>2. \A d \in ToSet(Directory) : d.name = Directory[i].name => d = Directory[i]
  BY OpenFilesAssumption DEF ToSet
<1>3. (CHOOSE d \in ToSet(Directory) : d.name = Directory[i].name) = Directory[i]
  BY <1>1, <1>2
<1> QED
  BY <1>1, <1>3 DEF FileNames, TypeOf

(* Outside the windows, an open finds the file of exactly the name that is    *)
(* asked for, and the descriptor works with the operations of its type        *)
(* (read_dentry_by_name, sys_open, open_file).                                *)
THEOREM OpensFindTheirFiles == NoWindows => (Spec => []NamesResolve)
<1> SUFFICES ASSUME NoWindows PROVE Spec => []NamesResolve
  OBVIOUS
<1>1. OpenFilesInv => NamesResolve
  <2> SUFFICES ASSUME OpenFilesInv PROVE NamesResolve
    OBVIOUS
  <2>1. missed = {}
    BY DEF OpenFilesInv, LookupInv
  <2>2. ASSUME NEW t \in Terminals, NEW k \in Slots, NEW fd \in 2 .. FD_TABLE_SIZE - 1,
               fd_table[t][k][fd].ops # NONE
        PROVE  LET d == fd_table[t][k][fd] IN
               /\ d.asked \in FileNames
               /\ d.ops = TypeOf(d.asked)
               /\ d.ops \notin {RTC, DIR} => Dentry(d.dentry).name = d.asked
    <3> DEFINE d == fd_table[t][k][fd]
    <3>1. DescInv(d)
      BY DEF OpenFilesInv, TableInv
    <3> HIDE DEF d
    <3>2. PICK i \in DOMAIN Directory : /\ Directory[i].name = d.asked
                                        /\ Directory[i].type = d.ops
                                        /\ d.ops \notin {RTC, DIR} => d.dentry = i
      BY <2>2, <3>1 DEF DescInv, d
    <3>3. d.asked \in FileNames /\ d.ops = TypeOf(d.asked)
      BY <3>2, TypeOfFile
    <3>4. Dentry(i).name = d.asked
      BY <3>2, DirectoryFacts
    <3> QED
      BY <3>2, <3>3, <3>4 DEF d
  <2> QED
    BY <2>1, <2>2 DEF NamesResolve
<1> QED
  BY <1>1, OpenFilesInvariant, PTL

(* Outside the windows, the reads of a descriptor of the directory list the   *)
(* files in order and leave none out (read_dir).                              *)
THEOREM DirectoriesAreListed == NoWindows => (Spec => []ListingComplete)
<1> SUFFICES ASSUME NoWindows PROVE Spec => []ListingComplete
  OBVIOUS
<1>1. OpenFilesInv => ListingComplete
  <2> SUFFICES ASSUME OpenFilesInv, NEW t \in Terminals, NEW k \in Slots,
                      NEW fd \in 2 .. FD_TABLE_SIZE - 1
               PROVE  LET d == fd_table[t][k][fd] IN
                      /\ Len(d.listed) <= Len(Directory)
                      /\ \A i \in DOMAIN d.listed : d.listed[i] = Directory[i].name
                      /\ d.done => Len(d.listed) = Len(Directory)
    BY DEF ListingComplete
  <2> DEFINE d == fd_table[t][k][fd]
  <2>1. fd \in Fd
    BY SizeFacts DEF Fd
  <2>2. DescInv(d) /\ d \in Descriptor
    BY <2>1 DEF OpenFilesInv, TableInv
  <2> HIDE DEF d
  <2>3. d.offset \in 0 .. Len(Directory) + 1 /\ Len(Directory) \in Nat
    BY <2>2, DirectoryFacts DEF Descriptor
  <2>4. /\ Len(d.listed) <= Len(Directory)
        /\ \A i \in DOMAIN d.listed : d.listed[i] = Directory[i].name
        /\ d.done => Len(d.listed) = Len(Directory)
    BY <2>2, <2>3 DEF DescInv
  <2> QED
    BY <2>4 DEF d
<1> QED
  BY <1>1, OpenFilesInvariant, PTL

(* Outside the windows, the program a command starts is the one it names, and *)
(* its arguments are what follows the first space (sys_execute).              *)
THEOREM CommandsRunTheirFiles == NoWindows => (Spec => []RunsNamedFile)
<1> SUFFICES ASSUME NoWindows PROVE Spec => []RunsNamedFile
  OBVIOUS
<1>1. OpenFilesInv => RunsNamedFile
  <2> SUFFICES ASSUME OpenFilesInv, NEW t \in Terminals, NEW k \in Slots
               PROVE  LET name == Dentry(runs[t][k]).name IN
                      /\ runs[t][k] \in Executables
                      /\ command[t][k] = IF args[t][k] # NONE THEN name \o <<SPACE>> \o args[t][k]
                                         ELSE IF SPACE \in ToSet(command[t][k]) THEN Append(name, SPACE)
                                         ELSE name
    BY DEF RunsNamedFile
  <2> DEFINE c == command[t][k]
             i == runs[t][k]
  <2>1. c \in String /\ i \in Executables /\ i = ReadDentryByName(NameOf(c)) /\ args[t][k] = ArgsOf(c)
    BY SizeFacts DEF OpenFilesInv, ProgramInv
  <2> HIDE DEF c, i
  <2>2. i \in DOMAIN Directory /\ NameOf(c) \in String
    BY <2>1, SizeFacts, CommandParts
  <2>3. Dentry(i).name = NameOf(c)
    BY <2>1, <2>2, Lookup, DirectoryFacts
  <2>4. c = IF ArgsOf(c) # NONE THEN NameOf(c) \o <<SPACE>> \o ArgsOf(c)
            ELSE IF SPACE \in ToSet(c) THEN Append(NameOf(c), SPACE)
            ELSE NameOf(c)
    BY <2>1, CommandParts
  <2> QED
    BY <2>1, <2>3, <2>4 DEF c, i
<1> QED
  BY <1>1, OpenFilesInvariant, PTL

(* Outside the windows, a halt closes what its program left open and nothing  *)
(* of any other program (sys_halt).                                           *)
THEOREM HaltsCloseTheirOwn == NoWindows => (Spec => HaltClosesOwn)
<1> SUFFICES ASSUME NoWindows PROVE Spec => HaltClosesOwn
  OBVIOUS
<1> DEFINE P == \A t \in Terminals : depth'[t] < depth[t] =>
                   fd_table' = [fd_table EXCEPT ![t][depth[t]] = FreshTable]
<1>1. OpenFilesInv /\ [Next]_vars => [P]_vars
  <2> SUFFICES ASSUME OpenFilesInv, Next, NEW t \in Terminals, depth'[t] < depth[t]
               PROVE  fd_table' = [fd_table EXCEPT ![t][depth[t]] = FreshTable]
    OBVIOUS
  <2>1. depth[t] \in Nat /\ current_terminal \in Terminals /\ depth \in [Terminals -> Slots]
    BY SizeFacts DEF OpenFilesInv, ProgramInv, Slots
  <2>2. depth' # depth
    BY <2>1
  <2>3. CASE Halt
    <3>1. t = current_terminal
      BY <2>1, <2>3 DEF Halt
    <3> QED
      BY <2>3, <3>1, HaltCloses
  <2>4. ASSUME NEW c \in Commands, Execute(c) PROVE FALSE
    <3>1. depth[current_terminal] \in Nat
      BY <2>1, SizeFacts DEF Slots
    <3>2. depth' = [depth EXCEPT ![current_terminal] = depth[current_terminal] + 1]
      BY <2>4 DEF Execute, Starts
    <3> QED
      BY <2>1, <3>1, <3>2
  <2>5. CASE HaltBaseShell
    BY <2>1, <2>5 DEF HaltBaseShell, Starts
  <2> QED
    BY <2>2, <2>3, <2>4, <2>5
       DEF Next, OpenLookup, OpenEntry, Close, ReadDir, ExecuteFails, Tick, programs
<1> HIDE DEF P
<1>2. Spec => [][P]_vars
  BY <1>1, OpenFilesInvariant, PTL DEF Spec
<1> QED
  BY <1>2 DEF P, HaltClosesOwn
=============================================================================

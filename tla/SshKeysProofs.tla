---------------------------- MODULE SshKeysProofs ----------------------------
(***************************************************************************)
(* SshKeys for any keys, listings and files, and any number of imports and *)
(* crashes: an import adds whole lines to a file of whole lines, and never *)
(* a key that is there and that it could read.                             *)
(***************************************************************************)
EXTENDS SshKeys, TLAPS

USE DEF EndOfLine

\* Keys are told from line ends, and from keys cut in the middle.
LEMMA KeysAreNumbers == \A k \in Key : k \in Int /\ k # EndOfLine
                          /\ Cut(k) \in Int /\ Cut(k) \notin Key
<1>1. \A k \in Key : k \in Nat \ {0}
  BY SshAssumption
<1> TAKE k \in Key
<1>2. -k \in Int /\ -k \notin Nat \ {0}
  BY <1>1
<1> QED
  BY <1>1, <1>2, SshAssumption DEF Cut

\* A file that another is the beginning of.
Extends(g, f) == Len(f) <= Len(g) /\ \A i \in DOMAIN f : g[i] = f[i]

\* Whole lines, then a key whose line has no end yet.
UnEnded(f) ==
  /\ Len(f) > 0 /\ f[Len(f)] \in Key
  /\ Len(f) = 1 \/ f[Len(f) - 1] = EndOfLine
  /\ \A i \in 1 .. Len(f) - 1 : f[i] # EndOfLine => f[i] \in Key /\ Alone(f, i)

\* What an import into whole lines has made of them.
LinesWhole ==
  WellFormed(before) =>
    /\ phase \in {"key", "set_permissions"} => WellFormed(file)
    /\ phase = "newline" => UnEnded(file)

\* What is listed is in the file or still to be written, and never both if the
\* file could be read; the key under way is the last thing in the file.
ListedAccounted ==
  /\ phase \in Writing \ {"write_authorized_keys"} =>
       \A n \in DOMAIN listed \ new_keys : Holds(file, listed[n])
  /\ phase = "set_permissions" => new_keys = {}
  /\ phase \in {"open", "key"} /\ ~unread => \A n \in new_keys : ~Holds(file, listed[n])
  /\ phase = "newline" =>
       \A n \in new_keys :
         IF IsNext(n) THEN Len(file) > 0 /\ file[Len(file)] = listed[n]
                      ELSE ~unread => ~Holds(file, listed[n])

ImportInv ==
  /\ TypeOK
  /\ Extends(file, before)
  /\ phase \in {"write_authorized_keys", "open"} => file = before
  /\ LinesWhole
  /\ ListedAccounted
  /\ SoundImports
  /\ AtMostOnce
----------------------------------------------------------------------------
\* Appending.

LEMMA Appended ==
  ASSUME NEW f \in Seq(Int), NEW x \in Int
  PROVE  /\ Append(f, x) \in Seq(Int)
         /\ Len(Append(f, x)) = Len(f) + 1
         /\ Append(f, x)[Len(f) + 1] = x
         /\ \A i \in DOMAIN f : Append(f, x)[i] = f[i]
         /\ DOMAIN f = 1 .. Len(f) /\ DOMAIN Append(f, x) = 1 .. Len(f) + 1
         /\ Extends(Append(f, x), f)
  BY DEF Extends

LEMMA ExtendsTransitive ==
  ASSUME NEW f \in Seq(Int), NEW g \in Seq(Int), NEW h \in Seq(Int),
         Extends(g, f), Extends(h, g)
  PROVE  Extends(h, f)
  BY DEF Extends

\* A key in a file of whole lines has a line of its own, and keeps it whatever
\* is appended.
LEMMA KeyKeepsLine ==
  ASSUME NEW f \in Seq(Int), NEW g \in Seq(Int), NEW k \in Key,
         WellFormed(f), Extends(g, f), Holds(f, k)
  PROVE  OwnLine(g, k)
<1>1. PICK i \in DOMAIN f : f[i] = k
  BY DEF Holds
<1>2. /\ Len(f) \in Nat /\ Len(g) \in Nat /\ Len(f) <= Len(g)
      /\ DOMAIN f = 1 .. Len(f) /\ DOMAIN g = 1 .. Len(g)
      /\ \A j \in 1 .. Len(f) : g[j] = f[j]
  BY DEF Extends
<1>3. k # EndOfLine
  BY KeysAreNumbers
<1>4. Alone(f, i) /\ i < Len(f)
  BY <1>1, <1>3 DEF WellFormed
<1>5. i \in 1 .. Len(f) /\ i \in Int
  BY <1>1, <1>2
<1>6. i \in DOMAIN g /\ g[i] = k
  BY <1>1, <1>2, <1>5
<1>7. g[i + 1] = EndOfLine
  <2>1. i + 1 \in 1 .. Len(f)
    BY <1>2, <1>4, <1>5
  <2>2. f[i + 1] = EndOfLine
    BY <1>2, <1>4, <1>5 DEF Alone
  <2> QED
    BY <1>2, <2>1, <2>2
<1>8. i = 1 \/ g[i - 1] = EndOfLine
  <2> SUFFICES ASSUME i # 1 PROVE g[i - 1] = EndOfLine
    OBVIOUS
  <2>1. i - 1 \in 1 .. Len(f)
    BY <1>2, <1>5
  <2>2. f[i - 1] = EndOfLine
    BY <1>4 DEF Alone
  <2> QED
    BY <1>2, <2>1, <2>2
<1> QED
  BY <1>6, <1>7, <1>8 DEF OwnLine, Alone

\* A key, written to whole lines, starts a line.
LEMMA KeyStartsLine ==
  ASSUME NEW f \in Seq(Int), NEW k \in Key, WellFormed(f)
  PROVE  UnEnded(Append(f, k))
<1> DEFINE g == Append(f, k)
<1>a. k \in Int
  BY KeysAreNumbers
<1>1. g \in Seq(Int) /\ Len(g) = Len(f) + 1 /\ g[Len(f) + 1] = k
        /\ (\A i \in 1 .. Len(f) : g[i] = f[i]) /\ DOMAIN f = 1 .. Len(f)
  BY <1>a, Appended
<1>0. Len(f) \in Nat
  OBVIOUS
<1> HIDE DEF g
<1>2. Len(g) = 1 \/ g[Len(g) - 1] = EndOfLine
  <2>1. Len(f) > 0 => f[Len(f)] = EndOfLine
    BY <1>0, <1>1 DEF WellFormed
  <2> QED
    BY <1>0, <1>1, <2>1
<1>3. ASSUME NEW i \in 1 .. Len(g) - 1, g[i] # EndOfLine
      PROVE  g[i] \in Key /\ Alone(g, i)
  <2>1. i \in 1 .. Len(f) /\ g[i] = f[i]
    BY <1>0, <1>1, <1>3
  <2>2. f[i] \in Key /\ Alone(f, i) /\ i < Len(f)
    BY <1>1, <1>3, <2>1 DEF WellFormed
  <2>3. g[i + 1] = f[i + 1] /\ (i = 1 \/ g[i - 1] = f[i - 1])
    BY <1>0, <1>1, <2>1, <2>2
  <2>4. f[i + 1] = EndOfLine /\ (i = 1 \/ f[i - 1] = EndOfLine)
    BY <1>0, <2>1, <2>2 DEF Alone
  <2>5. Alone(g, i)
    BY <2>3, <2>4 DEF Alone
  <2> QED
    BY <2>1, <2>2, <2>5
<1>4. g[Len(g)] = k /\ Len(g) > 0
  BY <1>0, <1>1
<1>5. UnEnded(g)
  BY <1>2, <1>3, <1>4 DEF UnEnded
<1> QED
  BY <1>5 DEF g

\* Its end makes the lines whole again.
LEMMA EndMakesWhole ==
  ASSUME NEW f \in Seq(Int), UnEnded(f)
  PROVE  WellFormed(Append(f, EndOfLine))
<1> DEFINE g == Append(f, EndOfLine)
<1>1. g \in Seq(Int) /\ Len(g) = Len(f) + 1 /\ g[Len(f) + 1] = EndOfLine
        /\ (\A i \in 1 .. Len(f) : g[i] = f[i]) /\ DOMAIN g = 1 .. Len(f) + 1
        /\ DOMAIN f = 1 .. Len(f)
  BY Appended
<1>0. Len(f) \in Nat
  OBVIOUS
<1> HIDE DEF g
<1>2. ASSUME NEW i \in DOMAIN g, g[i] # EndOfLine
      PROVE  g[i] \in Key /\ Alone(g, i) /\ i < Len(g)
  <2>0. i \in 1 .. Len(f) /\ g[i] = f[i] /\ (i = 1 \/ g[i - 1] = f[i - 1])
    BY <1>0, <1>1, <1>2
  <2>1. CASE i = Len(f)
    <3>1. g[i] \in Key /\ (i = 1 \/ g[i - 1] = EndOfLine)
      BY <2>0, <2>1 DEF UnEnded
    <3>2. g[i + 1] = EndOfLine
      BY <1>1, <2>1
    <3>3. Alone(g, i)
      BY <3>1, <3>2 DEF Alone
    <3> QED
      BY <1>0, <1>1, <2>1, <3>1, <3>3
  <2>2. CASE i < Len(f)
    <3>1. i \in 1 .. Len(f) - 1
      BY <1>0, <2>0, <2>2
    <3>2. g[i] \in Key /\ Alone(f, i)
      BY <1>2, <2>0, <3>1 DEF UnEnded
    <3>3. g[i + 1] = f[i + 1]
      BY <1>0, <1>1, <3>1
    <3> QED
      BY <1>0, <1>1, <2>0, <2>2, <3>2, <3>3 DEF Alone
  <2> QED
    BY <1>0, <2>0, <2>1, <2>2
<1>3. WellFormed(g)
  BY <1>2 DEF WellFormed
<1> QED
  BY <1>3 DEF g

\* What is appended is the one thing a file holds more.
LEMMA AppendHolds ==
  ASSUME NEW f \in Seq(Int), NEW x \in Int, NEW k \in Int
  PROVE  Holds(Append(f, x), k) <=> Holds(f, k) \/ k = x
  BY Appended DEF Holds

\* A key that is not there can be appended without being there twice.
LEMMA AppendRepeats ==
  ASSUME NEW f \in Seq(Int), NEW g \in Seq(Int), NEW x \in Int, NEW k \in Int,
         x = k => ~Holds(f, k), Repeats(Append(f, x), g, k)
  PROVE  Repeats(f, g, k)
<1>1. PICK i, j \in DOMAIN Append(f, x) :
        i # j /\ i > Len(g) /\ Append(f, x)[i] = k /\ Append(f, x)[j] = k
  BY DEF Repeats
<1>2. CASE i \in DOMAIN f /\ j \in DOMAIN f
  BY <1>1, <1>2, Appended DEF Repeats
<1>3. CASE i \notin DOMAIN f \/ j \notin DOMAIN f
  BY <1>1, <1>3, Appended DEF Holds
<1> QED
  BY <1>2, <1>3

\* Nothing is new in a file that is as it was.
LEMMA NothingNew ==
  ASSUME NEW f \in Seq(Int), NEW k
  PROVE  ~Repeats(f, f, k)
  BY DEF Repeats

\* What has a line of its own is there.
LEMMA OwnLineHolds ==
  ASSUME NEW f \in Seq(Int), NEW k, OwnLine(f, k)
  PROVE  Holds(f, k)
  BY DEF OwnLine, Holds
----------------------------------------------------------------------------
\* What every state has: a listing of keys, no two of them equal.
LEMMA ListedKeys ==
  ASSUME TypeOK
  PROVE  /\ \A n \in DOMAIN listed : listed[n] \in Key
         /\ \A n, m \in DOMAIN listed : listed[n] = listed[m] => n = m
         /\ Len(file) \in Nat /\ Len(before) \in Nat
         /\ DOMAIN file = 1 .. Len(file) /\ DOMAIN listed \subseteq Int
<1>1. \A list \in Listings :
        list \in Seq(Key) /\ \A i, j \in DOMAIN list : list[i] = list[j] => i = j
  BY SshAssumption
<1>2. listed \in Seq(Key) /\ \A i, j \in DOMAIN listed : listed[i] = listed[j] => i = j
  <2>1. CASE listed = <<>>
    BY <2>1
  <2>2. CASE listed \in Listings
    BY <1>1, <2>2
  <2> QED
    BY <2>1, <2>2 DEF TypeOK
<1> QED
  BY <1>2 DEF TypeOK

\* After any step it is enough that the file was only appended to; and after a
\* success, that its lines are whole and what was listed is among them.
LEMMA StepIsSound ==
  ASSUME TypeOK', Extends(file', before'),
         phase' = "Success" =>
           /\ before' # file' /\ WellFormed(before') => WellFormed(file')
           /\ \A n \in DOMAIN listed' : Holds(file', listed'[n])
  PROVE  SoundImports'
<1> SUFFICES ASSUME WellFormed(before')
             PROVE  /\ \A k \in Key : OwnLine(before', k) => OwnLine(file', k)
                    /\ phase' = "Success" /\ before' # file' => WellFormed(file')
                    /\ phase' = "Success" /\ listed' # <<>> =>
                         \A n \in DOMAIN listed' : OwnLine(file', listed'[n])
  BY DEF SoundImports
<1>1. ASSUME NEW k \in Key, OwnLine(before', k)
      PROVE  OwnLine(file', k)
  BY <1>1, KeyKeepsLine, OwnLineHolds DEF TypeOK
<1>2. ASSUME phase' = "Success", NEW n \in DOMAIN listed'
      PROVE  OwnLine(file', listed'[n])
  <2>1. WellFormed(file') /\ Extends(file', file') /\ file' \in Seq(Int)
    BY <1>2 DEF TypeOK, Extends
  <2>2. listed'[n] \in Key
    BY <1>2, SshAssumption DEF TypeOK
  <2> QED
    BY <1>2, <2>1, <2>2, KeyKeepsLine
<1> QED
  BY <1>1, <1>2
----------------------------------------------------------------------------
\* One lemma per step of an import.

\* A new import starts from the file as it is.
LEMMA StartKeeps ==
  ASSUME ImportInv, FetchFails \/ fetch_github_keys
  PROVE  ImportInv'
<1> USE DEF ImportInv, LinesWhole, ListedAccounted, Writing, historyVars
<1>1. TypeOK'
  <2>1. UNCHANGED <<file, durable>> /\ before' = file /\ unread' = FALSE
    BY DEF FetchFails, fetch_github_keys
  <2>2. file' \in Seq(Int) /\ before' \in Seq(Int) /\ durable' \in 0 .. Len(file')
    BY <2>1 DEF TypeOK
  <2>3. /\ phase' \in {"Error", "write_authorized_keys"}
        /\ listed' = <<>> \/ listed' \in Listings
        /\ new_keys' \subseteq DOMAIN listed'
    BY DEF TypeOK, FetchFails, fetch_github_keys
  <2>4. imports' \in Nat /\ crashes' \in Nat
    BY DEF TypeOK, FetchFails, fetch_github_keys
  <2>5. unread' \in BOOLEAN
    BY <2>1
  <2> HIDE DEF ImportInv, LinesWhole, ListedAccounted
  <2> QED
    BY <2>2, <2>3, <2>4, <2>5 DEF TypeOK
<1>2. file' = file /\ before' = file /\ phase' \in {"Error", "write_authorized_keys"}
  BY DEF FetchFails, fetch_github_keys
<1>3. Extends(file', before')
  BY <1>2 DEF Extends
<1>4. SoundImports'
  BY <1>1, <1>2, <1>3, StepIsSound
<1>5. AtMostOnce'
  BY <1>1, <1>2, NothingNew DEF AtMostOnce, TypeOK
<1> QED
  BY <1>1, <1>2, <1>3, <1>4, <1>5

\* What is missing from the file is set apart.
LEMMA FilterKeeps ==
  ASSUME ImportInv, write_authorized_keys
  PROVE  ImportInv'
<1> USE DEF ImportInv, LinesWhole, ListedAccounted, Writing, historyVars
<1>1. TypeOK'
  BY DEF TypeOK, write_authorized_keys, IsNew
<1>2. UNCHANGED <<file, before, listed>> /\ file = before
        /\ phase' \in {"Error", "Success", "open"}
  BY DEF write_authorized_keys
<1>3. phase' # "Error" => /\ \A n \in DOMAIN listed \ new_keys' : Holds(file, listed[n])
                          /\ ~unread' => \A n \in new_keys' : ~Holds(file, listed[n])
  <2>1. \A k : ~Holds(<<>>, k)
    BY DEF Holds
  <2> QED
    BY <2>1 DEF write_authorized_keys, IsNew
<1>4. phase' = "Success" => new_keys' = {}
  BY DEF write_authorized_keys
<1>5. SoundImports'
  BY <1>1, <1>2, <1>3, <1>4, StepIsSound
<1>6. AtMostOnce'
  BY <1>1, <1>2, NothingNew DEF AtMostOnce, TypeOK
<1> QED
  BY <1>1, <1>2, <1>3, <1>5, <1>6 DEF TypeOK

LEMMA OpenKeeps ==
  ASSUME ImportInv, Open
  PROVE  ImportInv'
<1> USE DEF ImportInv, LinesWhole, ListedAccounted, Writing, historyVars
<1>1. TypeOK'
  BY DEF TypeOK, Open, Opened
<1>2. UNCHANGED <<file, before, unread, listed, new_keys>> /\ phase' \in {"Error", "key"}
        /\ phase = "open"
  BY DEF Open, Opened
<1>3. SoundImports'
  BY <1>1, <1>2, StepIsSound
<1>4. AtMostOnce'
  BY <1>2 DEF AtMostOnce
<1> QED
  BY <1>1, <1>2, <1>3, <1>4

\* A whole key is one that was not there; a cut one is none.
LEMMA KeyKeeps ==
  ASSUME ImportInv, WriteKey
  PROVE  ImportInv'
<1> USE DEF ImportInv, LinesWhole, ListedAccounted, Writing, historyVars
<1>1. PICK n \in DOMAIN listed :
        /\ IsNext(n)
        /\ \/ phase' = "newline" /\ file' = Append(file, listed[n])
           \/ phase' = "Error" /\ file' \in {file, Append(file, Cut(listed[n]))}
  BY DEF WriteKey
<1>2. UNCHANGED <<before, listed, new_keys, imports, crashes, durable, unread>>
        /\ phase = "key"
  BY DEF WriteKey
<1>3. n \in new_keys /\ (~unread => ~Holds(file, listed[n]))
  BY <1>1, <1>2 DEF IsNext
<1>4. listed[n] \in Key /\ listed[n] \in Int /\ Cut(listed[n]) \in Int
        /\ Cut(listed[n]) \notin Key /\ file \in Seq(Int) /\ before \in Seq(Int)
  BY ListedKeys, KeysAreNumbers DEF TypeOK
<1>5. CASE phase' = "newline" /\ file' = Append(file, listed[n])
  <2>1. TypeOK'
    BY <1>2, <1>4, <1>5, Appended DEF TypeOK
  <2>2. Extends(file', before')
    <3>1. Extends(file', file)
      BY <1>4, <1>5, Appended
    <3> QED
      BY <1>2, <1>4, <2>1, <3>1, ExtendsTransitive DEF TypeOK
  <2>3. LinesWhole'
    BY <1>2, <1>4, <1>5, KeyStartsLine
  <2>4. ListedAccounted'
    <3>1. \A m \in DOMAIN listed : Holds(file', listed[m]) <=> Holds(file, listed[m]) \/ m = n
      BY <1>4, <1>5, AppendHolds, ListedKeys, KeysAreNumbers
    <3>2. Len(file') > 0 /\ file'[Len(file')] = listed[n]
      BY <1>4, <1>5, Appended
    <3>3. \A m \in new_keys : m # n => ~IsNext(m)
      <4> SUFFICES ASSUME NEW m \in new_keys, m # n, IsNext(m) PROVE FALSE
        OBVIOUS
      <4>1. m <= n /\ n <= m /\ m \in Int /\ n \in Int
        BY <1>1, <1>3, ListedKeys DEF IsNext, TypeOK
      <4> QED
        BY <4>1
    <3> QED
      BY <1>1, <1>2, <1>3, <1>5, <3>1, <3>2, <3>3 DEF IsNext, TypeOK
  <2>5. SoundImports'
    BY <1>5, <2>1, <2>2, StepIsSound
  <2>6. AtMostOnce'
    BY <1>2, <1>3, <1>4, <1>5, AppendRepeats, KeysAreNumbers DEF AtMostOnce, TypeOK
  <2> QED
    BY <1>5, <2>1, <2>2, <2>3, <2>4, <2>5, <2>6
<1>6. CASE phase' = "Error" /\ file' \in {file, Append(file, Cut(listed[n]))}
  <2>0. file' = file \/ file' = Append(file, Cut(listed[n]))
    BY <1>6
  <2>1. file' \in Seq(Int) /\ Extends(file', file)
    <3>1. CASE file' = file
      BY <1>4, <3>1 DEF Extends
    <3>2. CASE file' = Append(file, Cut(listed[n]))
      BY <1>4, <3>2, Appended
    <3> QED
      BY <2>0, <3>1, <3>2
  <2>2. TypeOK'
    BY <1>2, <1>6, <2>1 DEF TypeOK
  <2>3. Extends(file', before')
    BY <1>2, <1>4, <2>1, ExtendsTransitive
  <2>4. SoundImports'
    BY <1>6, <2>2, <2>3, StepIsSound
  <2>5. AtMostOnce'
    <3> SUFFICES ASSUME ~unread', NEW k \in Key, Repeats(file', before', k) PROVE FALSE
      BY DEF AtMostOnce
    <3>1. CASE file' = file
      BY <1>2, <3>1 DEF AtMostOnce
    <3>2. CASE file' = Append(file, Cut(listed[n]))
      <4>1. k \in Int /\ Cut(listed[n]) # k
        BY <1>4, KeysAreNumbers
      <4>2. Repeats(file, before, k)
        BY <1>2, <1>4, <3>2, <4>1, AppendRepeats DEF TypeOK
      <4> QED
        BY <1>2, <4>2 DEF AtMostOnce
    <3> QED
      BY <2>0, <3>1, <3>2
  <2> QED
    BY <1>6, <2>2, <2>3, <2>4, <2>5
<1> QED
  BY <1>1, <1>5, <1>6

\* The end of the line makes the lines whole, or the import ends without it.
LEMMA NewlineKeeps ==
  ASSUME ImportInv, WriteNewline
  PROVE  ImportInv'
<1> USE DEF ImportInv, LinesWhole, ListedAccounted, Writing, historyVars
<1>1. UNCHANGED <<before, listed, imports, crashes, durable, unread>> /\ phase = "newline"
        /\ file \in Seq(Int) /\ before \in Seq(Int)
  BY DEF WriteNewline, TypeOK
<1>2. CASE phase' = "Error" /\ UNCHANGED <<file, new_keys>>
  <2>1. TypeOK' /\ Extends(file', before')
    BY <1>1, <1>2 DEF TypeOK
  <2>2. SoundImports'
    BY <1>2, <2>1, StepIsSound
  <2>3. AtMostOnce'
    BY <1>1, <1>2 DEF AtMostOnce
  <2> QED
    BY <1>2, <2>1, <2>2, <2>3
<1>3. CASE /\ file' = Append(file, EndOfLine)
           /\ \E n \in DOMAIN listed : IsNext(n) /\ new_keys' = new_keys \ {n}
           /\ phase' = IF new_keys' = {} THEN "set_permissions" ELSE "key"
  <2>0. EndOfLine \in Int /\ \A k \in Key : k # EndOfLine
    BY KeysAreNumbers
  <2>1. PICK n \in DOMAIN listed : IsNext(n) /\ new_keys' = new_keys \ {n}
    BY <1>3
  <2>2. TypeOK'
    BY <1>1, <1>3, <2>0, <2>1, Appended DEF TypeOK
  <2>3. Extends(file', before')
    <3>1. Extends(file', file)
      BY <1>1, <1>3, <2>0, Appended
    <3> QED
      BY <1>1, <2>2, <3>1, ExtendsTransitive DEF TypeOK
  <2>4. LinesWhole'
    BY <1>1, <1>3, EndMakesWhole
  <2>5. ListedAccounted'
    <3>1. \A m \in DOMAIN listed : Holds(file', listed[m]) <=> Holds(file, listed[m])
      <4> SUFFICES ASSUME NEW m \in DOMAIN listed
                   PROVE  Holds(file', listed[m]) <=> Holds(file, listed[m])
        OBVIOUS
      <4>1. listed[m] \in Int /\ listed[m] # EndOfLine
        BY ListedKeys, KeysAreNumbers
      <4>2. file' = Append(file, EndOfLine) /\ file \in Seq(Int)
        BY <1>1, <1>3
      <4> HIDE DEF ImportInv, LinesWhole, ListedAccounted, Writing
      <4> QED
        BY <4>1, <4>2, <2>0, AppendHolds
    <3>2. Holds(file, listed[n])
      BY <1>1, <2>1, ListedKeys DEF IsNext, Holds
    <3>3. \A m \in new_keys : m # n => ~IsNext(m)
      <4> SUFFICES ASSUME NEW m \in new_keys, m # n, IsNext(m) PROVE FALSE
        OBVIOUS
      <4>1. m <= n /\ n <= m /\ m \in Int /\ n \in Int
        BY <2>1, ListedKeys DEF IsNext, TypeOK
      <4> QED
        BY <4>1
    <3> QED
      BY <1>1, <1>3, <2>1, <3>1, <3>2, <3>3 DEF TypeOK
  <2>6. SoundImports'
    BY <1>3, <2>2, <2>3, StepIsSound
  <2>7. AtMostOnce'
    BY <1>1, <1>3, <2>0, AppendRepeats, KeysAreNumbers DEF AtMostOnce, TypeOK
  <2> QED
    BY <1>3, <2>2, <2>3, <2>4, <2>5, <2>6, <2>7
<1> QED
  BY <1>2, <1>3 DEF WriteNewline

LEMMA PermissionsKeep ==
  ASSUME ImportInv, set_permissions
  PROVE  ImportInv'
<1> USE DEF ImportInv, LinesWhole, ListedAccounted, Writing, historyVars
<1>1. UNCHANGED <<file, before, unread, listed, new_keys>> /\ phase = "set_permissions"
        /\ phase' \in {"Error", "Success"}
  BY DEF set_permissions
<1>2. TypeOK'
  BY DEF TypeOK, set_permissions
<1>3. SoundImports'
  BY <1>1, <1>2, StepIsSound DEF TypeOK
<1>4. AtMostOnce'
  BY <1>1 DEF AtMostOnce
<1> QED
  BY <1>1, <1>2, <1>3, <1>4

\* After a crash what is left on disk is where the next import starts.
LEMMA CrashKeeps ==
  ASSUME ImportInv, Crash
  PROVE  ImportInv'
<1> USE DEF ImportInv, LinesWhole, ListedAccounted, Writing, historyVars
<1>1. UNCHANGED <<listed, new_keys, imports, unread>> /\ phase' = "idle"
        /\ crashes' = crashes + 1 /\ file \in Seq(Int)
        /\ before' = file' /\ durable' = Len(file') /\ file' \in OnDisk
  BY DEF Crash, TypeOK
<1>2. file' \in Seq(Int)
  <2>1. CASE file' \in {SubSeq(file, 1, n) : n \in durable .. Len(file)}
    <3>1. PICK n \in durable .. Len(file) : file' = SubSeq(file, 1, n)
      BY <2>1
    <3>2. n \in 0 .. Len(file)
      BY <3>1 DEF TypeOK
    <3> QED
      BY <1>1, <3>1, <3>2
  <2>2. CASE file' \notin {SubSeq(file, 1, n) : n \in durable .. Len(file)}
    <3>1. PICK n \in durable + 1 .. Len(file) :
            file[n] \in Key /\ file' = Append(SubSeq(file, 1, n - 1), Cut(file[n]))
      BY <1>1, <2>2 DEF OnDisk
    <3>2. n \in 1 .. Len(file)
      BY <1>1, <3>1 DEF TypeOK
    <3>3. SubSeq(file, 1, n - 1) \in Seq(Int)
      BY <1>1, <3>2
    <3> QED
      BY <3>1, <3>3, KeysAreNumbers
  <2> QED
    BY <2>1, <2>2
<1>3. TypeOK'
  <2>1. Len(file') \in 0 .. Len(file')
    BY <1>2
  <2> QED
    BY <1>1, <1>2, <2>1 DEF TypeOK
<1>4. Extends(file', before')
  BY <1>1, <1>2 DEF Extends
<1>5. SoundImports'
  BY <1>1, <1>3, <1>4, StepIsSound
<1>6. AtMostOnce'
  BY <1>1, <1>2, NothingNew DEF AtMostOnce
<1> QED
  BY <1>1, <1>3, <1>4, <1>5, <1>6
----------------------------------------------------------------------------
LEMMA ImportInvAlways == Spec => []ImportInv
<1>1. Init => ImportInv
  <2> SUFFICES ASSUME Init PROVE ImportInv
    OBVIOUS
  <2>0. file \in Seq(Int) /\ durable \in 0 .. Len(file)
    BY SshAssumption DEF Init
  <2>1. TypeOK
    BY <2>0 DEF Init, TypeOK
  <2>2. Extends(file, before)
    BY <2>1 DEF Init, Extends, TypeOK
  <2>3. AtMostOnce
    BY <2>0, NothingNew DEF Init, AtMostOnce
  <2> QED
    BY <2>1, <2>2, <2>3 DEF Init, ImportInv, LinesWhole, ListedAccounted, Writing, SoundImports
<1>2. ImportInv /\ [Next]_vars => ImportInv'
  <2> SUFFICES ASSUME ImportInv, [Next]_vars PROVE ImportInv'
    OBVIOUS
  <2>1. CASE UNCHANGED vars
    BY <2>1 DEF vars, ImportInv, TypeOK, Extends, LinesWhole, ListedAccounted, Writing,
       SoundImports, AtMostOnce, IsNext, historyVars
  <2> QED
    BY <2>1, StartKeeps, FilterKeeps, OpenKeeps, KeyKeeps, NewlineKeeps, PermissionsKeep,
       CrashKeeps DEF Next
<1> QED
  BY <1>1, <1>2, PTL DEF Spec

\* For any keys, listings and files, and any failures between any two writes,
\* whatever crashes left of earlier imports: an import into whole lines takes no
\* key away, and one that reports Success has given every listed key a line of
\* its own.
THEOREM ImportsSound == Spec => []SoundImports
<1>1. ImportInv => SoundImports
  BY DEF ImportInv
<1> QED
  BY <1>1, ImportInvAlways, PTL

\* For any file, whole or not, no import that could read it writes a key that is
\* there, before the import or by it.
THEOREM KeysAtMostOnce == Spec => []AtMostOnce
<1>1. ImportInv => AtMostOnce
  BY DEF ImportInv
<1> QED
  BY <1>1, ImportInvAlways, PTL
=============================================================================

------------------------------ MODULE SshKeys ------------------------------
(***************************************************************************)
(* Importing SSH keys (ssh.rs): the keys a name has on GitHub are appended *)
(* to a user's authorized_keys, write by write, on a disk that may fill up *)
(* and a machine that may stop; failed imports are repeated by the user.   *)
(* The file is a sequence of pieces: a key, a cut key, a line's end, or    *)
(* anything else a line may hold.                                          *)
(***************************************************************************)
EXTENDS Integers, Sequences

CONSTANTS
  Key,        \* positive numbers
  Other,      \* a piece that is no key, such as a comment or an option
  Initial,    \* what the file may be at first
  Listings,   \* what GitHub may list for a name, no key twice
  IMPORTS, CRASHES   \* bounds for model checking

EndOfLine == 0
Cut(k) == -k

ASSUME SshAssumption ==
  /\ Key \subseteq Nat \ {0}
  /\ Other \in Int /\ Other # EndOfLine /\ \A k \in Key : Other \notin {k, Cut(k)}
  /\ \A list \in Listings :
       list \in Seq(Key) /\ \A i, j \in DOMAIN list : list[i] = list[j] => i = j
  /\ Initial \subseteq Seq(Int)
  /\ IMPORTS \in Nat /\ CRASHES \in Nat

Writing == {"write_authorized_keys", "open", "key", "newline", "set_permissions"}

VARIABLES
  file,      \* authorized_keys; <<>> also if there is none
  phase,     \* where execute_import_ssh_keys is, or how it ended
  listed,    \* what was fetched
  new_keys,  \* what is left to write, by its places in listed
  imports, crashes,
  durable,   \* how much of the file is on disk for certain: nothing is synced
  \* History.
  before,    \* the file when the import or, after a crash, the machine started
  unread     \* this import could not read the file

historyVars == <<before, unread>>
vars == <<file, phase, listed, new_keys, imports, crashes, durable, historyVars>>

Init ==
  /\ file \in Initial /\ before = file
  /\ phase = "idle"
  /\ listed = <<>> /\ new_keys = {}
  /\ imports = 0 /\ crashes = 0
  /\ durable = Len(file) /\ unread = FALSE
----------------------------------------------------------------------------
TypeOK ==
  /\ file \in Seq(Int) /\ before \in Seq(Int)
  /\ phase \in Writing \cup {"idle", "Success", "Error"}
  /\ listed = <<>> \/ listed \in Listings
  /\ new_keys \subseteq DOMAIN listed
  /\ phase \in {"open", "key", "newline"} => new_keys # {}
  /\ imports \in Nat /\ crashes \in Nat
  /\ durable \in 0 .. Len(file)
  /\ unread \in BOOLEAN

Holds(f, k) == \E i \in DOMAIN f : f[i] = k

\* Alone on its line.
Alone(f, i) ==
  /\ i = 1 \/ f[i - 1] = EndOfLine
  /\ i = Len(f) \/ f[i + 1] = EndOfLine

\* sshd accepts a key that has a line of its own.
OwnLine(f, k) == \E i \in DOMAIN f : f[i] = k /\ Alone(f, i)

\* Every line is one whole key, or blank, and ended.
WellFormed(f) ==
  \A i \in DOMAIN f :
    f[i] # EndOfLine => f[i] \in Key /\ Alone(f, i) /\ i < Len(f)

\* An invalid name, an answer that is an error, is not keys, or lists none.
FetchFails ==
  /\ phase \in {"idle", "Success", "Error"} /\ imports < IMPORTS
  /\ imports' = imports + 1
  /\ phase' = "Error"
  /\ before' = file /\ unread' = FALSE
  /\ UNCHANGED <<file, listed, new_keys, crashes, durable>>

fetch_github_keys ==
  /\ phase \in {"idle", "Success", "Error"} /\ imports < IMPORTS
  /\ imports' = imports + 1
  /\ \E list \in Listings :
       /\ listed' = list
       /\ phase' = IF list = <<>> THEN "Error" ELSE "write_authorized_keys"
  /\ new_keys' = {}
  /\ before' = file /\ unread' = FALSE
  /\ UNCHANGED <<file, crashes, durable>>

\* Mutant: only lines that are equal count as there.
Missing(existing, k) == ~OwnLine(existing, k)

\* A key is there if the text contains it, wherever.
IsNew(existing, k) == ~Holds(existing, k)

\* The directory is made, or that fails; a file that cannot be read, or is not
\* UTF-8, counts as empty.
write_authorized_keys ==
  /\ phase = "write_authorized_keys"
  /\ \/ \E existing \in {file, <<>>} :
          /\ new_keys' = {n \in DOMAIN listed : IsNew(existing, listed[n])}
          /\ phase' = IF new_keys' = {} THEN "Success" ELSE "open"
          /\ unread' = (existing # file)
     \/ phase' = "Error" /\ UNCHANGED <<new_keys, unread>>
  /\ UNCHANGED <<file, listed, imports, crashes, durable, before>>

\* Mutant: the file is emptied when it is opened.
Truncated == <<>>

\* The file is opened to append.
Opened == file

Open ==
  /\ phase = "open"
  /\ \/ phase' = "key" /\ file' = Opened
     \/ phase' = "Error" /\ UNCHANGED file
  /\ UNCHANGED <<listed, new_keys, imports, crashes, durable, historyVars>>

\* They are written in the order of the listing.
IsNext(n) == n \in new_keys /\ \A m \in new_keys : n <= m

\* writeln! writes the key, which a full disk cuts or prevents, ...
WriteKey ==
  /\ phase = "key"
  /\ \E n \in DOMAIN listed :
       /\ IsNext(n)
       /\ \/ phase' = "newline" /\ file' = Append(file, listed[n])
          \/ phase' = "Error" /\ file' \in {file, Append(file, Cut(listed[n]))}
  /\ UNCHANGED <<listed, new_keys, imports, crashes, durable, historyVars>>

\* ... and then the line's end.
WriteNewline ==
  /\ phase = "newline"
  /\ \/ /\ file' = Append(file, EndOfLine)
        /\ \E n \in DOMAIN listed : IsNext(n) /\ new_keys' = new_keys \ {n}
        /\ phase' = IF new_keys' = {} THEN "set_permissions" ELSE "key"
     \/ phase' = "Error" /\ UNCHANGED <<file, new_keys>>
  /\ UNCHANGED <<listed, imports, crashes, durable, historyVars>>

set_permissions ==
  /\ phase = "set_permissions"
  /\ phase' \in {"Success", "Error"}
  /\ UNCHANGED <<file, listed, new_keys, imports, crashes, durable, historyVars>>

\* What may be on disk of what was appended: a part of it, which may end within a
\* key.
OnDisk ==
  {SubSeq(file, 1, n) : n \in durable .. Len(file)} \cup
  {Append(SubSeq(file, 1, n - 1), Cut(file[n])) :
     n \in {m \in durable + 1 .. Len(file) : file[m] \in Key}}

\* The machine stops, during an import or after it, and starts again.
Crash ==
  /\ crashes < CRASHES
  /\ crashes' = crashes + 1
  /\ phase' = "idle"
  /\ file' \in OnDisk
  /\ before' = file' /\ durable' = Len(file')
  /\ UNCHANGED <<listed, new_keys, imports, unread>>

Next ==
  \/ FetchFails \/ fetch_github_keys \/ write_authorized_keys
  \/ Open \/ WriteKey \/ WriteNewline \/ set_permissions \/ Crash

Spec == Init /\ [][Next]_vars
----------------------------------------------------------------------------
\* As long as the machine runs, an import into a file of whole lines never takes
\* a key away, failed writes included; and when it reports Success every key that
\* was listed has a line of its own ("Appends to any existing keys", ssh.rs:58).
SoundImports ==
  WellFormed(before) =>
    /\ \A k \in Key : OwnLine(before, k) => OwnLine(file, k)
    /\ phase = "Success" /\ before # file => WellFormed(file)
    /\ phase = "Success" /\ listed # <<>> => \A i \in DOMAIN listed : OwnLine(file, listed[i])

\* Of the same key twice in f, one is in what f has more than g.
Repeats(f, g, k) ==
  \E i, j \in DOMAIN f : i # j /\ i > Len(g) /\ f[i] = k /\ f[j] = k

\* "... and deduplicates" (ssh.rs:58), if the import could read the file: a key
\* it appends is in the file nowhere else, whatever else its lines hold; and so,
\* an import's result being the next one's start, no key comes in twice however
\* often imports fail and are repeated and the machine stops.
AtMostOnce ==
  ~unread => \A k \in Key : ~Repeats(file, before, k)
=============================================================================

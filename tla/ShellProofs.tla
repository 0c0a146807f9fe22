----------------------------- MODULE ShellProofs ----------------------------
(***************************************************************************)
(* Proofs about module Shell, for every line length, name length, alphabet *)
(* and list of boot files.                                                 *)
(*                                                                         *)
(* The invariant ties the array to the screen while a line is edited       *)
(* (Echo), and the file list to the calls that made it (Listed): newest    *)
(* first, each name the one given unless it was cut.                       *)
(***************************************************************************)
EXTENDS Shell, WellFoundedInduction, TLAPS

Edited == pc \in {"read", "command"} /\ ~garbled

\* While no NUL was typed the screen shows the characters before pos.
Echo ==
    Edited =>
        /\ Len(screen) = pos
        /\ \A i \in 1 .. pos : screen[i] = line[i - 1]
        /\ pc = "command" => pos > 0 /\ line[pos] = NUL

Fitting(f) == Len(f.given) < RAMFS_NAME_MAX

\* file_list: the newest file first.
Listed ==
    /\ \A i \in DOMAIN files :
          /\ files[i].nr \in 1 .. created
          /\ Fitting(files[i]) => files[i].name = files[i].given
    /\ \A i, j \in DOMAIN files : i < j => files[i].nr > files[j].nr

IInv == TypeOK /\ Echo /\ Listed /\ ExecFindsNewest

-----------------------------------------------------------------------------

\* A set of naturals that is not empty has a least element.
LEMMA Least ==
    ASSUME NEW S \in SUBSET Nat, S # {}
    PROVE  \E i \in S : \A j \in S : i <= j
<1> DEFINE Below == {ss \in Nat \X Nat : ss[1] < ss[2]}
<1>1. OpToRel(<, Nat) = Below
  BY DEF OpToRel
<1>2. IsWellFoundedOn(Below, Nat)
  BY <1>1, NatLessThanWellFounded, Zenon
<1>3. \E i \in S : \A j \in S : ~(<<j, i>> \in Below)
  <2> HIDE DEF Below
  <2> QED  BY <1>2, WFMin
<1>4. \A i, j \in Nat : j < i => <<j, i>> \in Below
  OBVIOUS
<1>5. PICK i \in S : \A j \in S : ~(<<j, i>> \in Below)
  BY <1>3
<1> HIDE DEF Below
<1>6. \A j \in S : i <= j
  <2> SUFFICES ASSUME NEW j \in S PROVE i <= j
    OBVIOUS
  <2>1. i \in Nat /\ j \in Nat
    OBVIOUS
  <2>2. ~(j < i)
    BY <2>1, <1>4, <1>5
  <2> QED  BY <2>1, <2>2
<1> QED  BY <1>6

\* The C string that ends a line without NULs is what the screen shows.
LEMMA CommandShown ==
    ASSUME TypeOK, Len(screen) = pos, line[pos] = NUL,
           \A i \in 1 .. pos : screen[i] = line[i - 1]
    PROVE  Command = screen
<1> DEFINE Stops(n) == n = LINE_MAX \/ line[n] = NUL
           First(n) == Stops(n) /\ \A m \in 0 .. n - 1 : ~Stops(m)
           len == CHOOSE n \in 0 .. LINE_MAX : First(n)
<1>1. pos \in Nat /\ pos < LINE_MAX /\ LINE_MAX \in Nat
  BY ShellConstants DEF TypeOK
<1>2. screen \in Seq(Char) /\ NUL \notin Char
  BY ShellConstants DEF TypeOK
<1>3. \A m \in 0 .. pos - 1 : ~Stops(m)
  <2> SUFFICES ASSUME NEW m \in 0 .. pos - 1 PROVE ~Stops(m)
    OBVIOUS
  <2>1. m + 1 \in 1 .. pos /\ m # LINE_MAX
    BY <1>1
  <2>2. screen[m + 1] \in Char
    BY <2>1, <1>2, <1>1
  <2>3. line[m] = screen[m + 1]
    BY <2>1
  <2> QED  BY <2>1, <2>2, <2>3, <1>2
<1>4. First(pos) /\ pos \in 0 .. LINE_MAX
  BY <1>1, <1>3
<1>5. \A n \in 0 .. LINE_MAX : First(n) => n = pos
  <2> SUFFICES ASSUME NEW n \in 0 .. LINE_MAX, First(n) PROVE n = pos
    OBVIOUS
  <2>1. ~(n < pos)
    BY <1>1, <1>3
  <2>2. ~(pos < n)
    <3> SUFFICES ASSUME pos < n PROVE FALSE
      OBVIOUS
    <3>1. pos \in 0 .. n - 1
      BY <1>1
    <3> QED  BY <3>1, <1>4
  <2> QED  BY <2>1, <2>2, <1>1
<1>6. len = pos
  <2> HIDE DEF First
  <2> QED  BY <1>4, <1>5
<1>7. Command = [i \in 1 .. len |-> line[i - 1]]
  BY DEF Command
<1>8. screen = [i \in 1 .. pos |-> screen[i]]
  BY <1>2, <1>1
<1> HIDE DEF len
<1> QED  BY <1>6, <1>7, <1>8

\* ramfs_find walks the list from its head: nothing before what it returns has the
\* name, and it returns NoFile only if nothing has.
LEMMA Finds ==
    ASSUME TypeOK, NEW name
    PROVE  \/ /\ ramfs_find(name) = NoFile
              /\ \A j \in DOMAIN files : files[j].name # name
           \/ \E i \in DOMAIN files :
                 /\ ramfs_find(name) = files[i] /\ files[i].name = name
                 /\ \A j \in DOMAIN files : files[j].name = name => i <= j
<1> DEFINE hits == {i \in DOMAIN files : files[i].name = name}
           min == CHOOSE i \in hits : \A j \in hits : i <= j
<1>1. hits \in SUBSET Nat
  BY DEF TypeOK
<1>2. CASE hits = {}
  BY <1>2 DEF ramfs_find
<1>3. CASE hits # {}
  <2>1. \E i \in hits : \A j \in hits : i <= j
    <3> HIDE DEF hits
    <3> QED  BY <1>1, <1>3, Least
  <2>2. min \in hits /\ \A j \in hits : min <= j
    <3> HIDE DEF hits
    <3> QED  BY <2>1
  <2>3. ramfs_find(name) = files[min]
    BY <1>3 DEF ramfs_find
  <2> HIDE DEF min
  <2> QED  BY <2>2, <2>3
<1> QED  BY <1>2, <1>3

-----------------------------------------------------------------------------

\* Steps that touch neither the array nor the list.
LEMMA QuietStep ==
    ASSUME IInv, TypeOK', UNCHANGED <<editVars, fileVars>>,
           pc' \in {"read", "command"} => pc' = pc,
           pc' \in {"child", "result"} => pc \in {"child", "result"} /\ ran' = ran
    PROVE  IInv'
<1> USE DEF editVars, fileVars
<1>1. Echo'
  BY DEF IInv, Echo, Edited
<1>2. Listed'
  BY DEF IInv, Listed, Fitting
<1>3. ExecFindsNewest'
  <2> SUFFICES ASSUME pc' \in {"child", "result"}, ~garbled' PROVE ExecFindsNewest'
    BY DEF ExecFindsNewest
  <2>1. pc \in {"child", "result"} /\ ran' = ran
    OBVIOUS
  <2> QED  BY <2>1 DEF IInv, ExecFindsNewest
<1> QED  BY <1>1, <1>2, <1>3 DEF IInv

\* Steps of the line editor: the list stays, and nothing is being run.
LEMMA EditStep ==
    ASSUME IInv, TypeOK', Echo', UNCHANGED fileVars, pc' \notin {"child", "result"}
    PROVE  IInv'
<1>1. Listed'
  BY DEF IInv, Listed, Fitting, fileVars
<1>2. ExecFindsNewest'
  BY DEF ExecFindsNewest
<1> QED  BY <1>1, <1>2 DEF IInv

LEMMA receive_keeps ==
    ASSUME IInv, NEW k \in Key, receive(k)
    PROVE  IInv'
<1>1. fifo' \in Seq(Key) /\ Len(fifo') <= FifoSize
  BY ShellConstants DEF receive, IInv, TypeOK
<1>2. TypeOK'
  BY <1>1 DEF receive, IInv, TypeOK, editVars, fileVars
<1> QED  BY <1>2, QuietStep DEF receive

\* sys_read leaves the port with one byte less.
LEMMA ReadTyped ==
    ASSUME TypeOK, NEW k, ReadChar(k)
    PROVE  fifo' \in Seq(Key) /\ Len(fifo') <= FifoSize /\ k \in Key
<1>1. fifo \in Seq(Key) /\ fifo # <<>> /\ Len(fifo) <= FifoSize
  BY DEF TypeOK, ReadChar
<1>2. Tail(fifo) \in Seq(Key) /\ Len(Tail(fifo)) = Len(fifo) - 1 /\ Head(fifo) \in Key
  BY <1>1
<1>3. Len(fifo) \in Nat /\ FifoSize \in Nat
  BY <1>1, ShellConstants
<1> QED  BY <1>1, <1>2, <1>3 DEF ReadChar

LEMMA prompt_keeps ==
    ASSUME IInv, prompt
    PROVE  IInv'
<1>1. TypeOK'
  <2>1. 0 \in 0 .. LINE_MAX - 1 /\ NoFile \in File
    BY ShellConstants DEF NoFile, File
  <2>2. screen' \in Seq(Char)
    BY DEF prompt
  <2>3. garbled' \in BOOLEAN
    BY Zenon DEF prompt
  <2> QED  BY <2>1, <2>2, <2>3 DEF prompt, IInv, TypeOK, fileVars
<1>2. Echo'
  BY DEF prompt, Echo, Edited
<1> QED  BY <1>1, <1>2, EditStep DEF prompt

LEMMA read_enter_keeps ==
    ASSUME IInv, read_enter
    PROVE  IInv'
<1>1. fifo' \in Seq(Key) /\ Len(fifo') <= FifoSize
  BY ReadTyped DEF IInv, read_enter
<1>2. pos \in 0 .. LINE_MAX - 1 /\ line \in [0 .. LINE_MAX - 1 -> Byte] /\ NUL \in Byte
  BY DEF IInv, TypeOK, Byte
<1>3. line' = [line EXCEPT ![pos] = NUL] /\ pos' = pos /\ pc' \in {"prompt", "command"}
        /\ pc = "read" /\ UNCHANGED <<screen, garbled, files, created, ran, rax>>
  BY DEF read_enter, Terminated, fileVars
<1>4. TypeOK'
  BY <1>1, <1>2, <1>3 DEF IInv, TypeOK
<1>5. Echo'
  <2> SUFFICES ASSUME Edited' PROVE Echo'
    BY DEF Echo
  <2>1. Edited /\ pos > 0
    BY <1>2, <1>3 DEF Edited, read_enter
  <2>2. Len(screen) = pos /\ \A i \in 1 .. pos : screen[i] = line[i - 1]
    BY <2>1 DEF IInv, Echo
  <2>3. line'[pos] = NUL /\ \A i \in 1 .. pos : line'[i - 1] = line[i - 1]
    BY <1>2, <1>3
  <2> QED  BY <2>1, <2>2, <2>3, <1>3 DEF Echo
<1> QED  BY <1>3, <1>4, <1>5, EditStep DEF fileVars

LEMMA read_backspace_keeps ==
    ASSUME IInv, read_backspace
    PROVE  IInv'
<1>1. fifo' \in Seq(Key) /\ Len(fifo') <= FifoSize
  BY ReadTyped DEF IInv, read_backspace
<1>2. pc = "read" /\ pc' = "read" /\ UNCHANGED <<line, garbled, files, created, ran, rax>>
  BY DEF read_backspace, fileVars
<1>3. CASE pos > 0
  <2>1. pos' = pos - 1 /\ screen' = SubSeq(screen, 1, Len(screen) - 1)
    BY <1>3 DEF read_backspace, Rubs
  <2>2. screen \in Seq(Char) /\ Len(screen) \in Nat /\ pos \in 0 .. LINE_MAX - 1
    BY DEF IInv, TypeOK
  <2>3. screen' \in Seq(Char)
    BY <2>1, <2>2
  <2>4. TypeOK'
    <3>1. pos' \in 0 .. LINE_MAX - 1
      BY <1>3, <2>1, <2>2, ShellConstants
    <3> QED  BY <1>1, <1>2, <2>3, <3>1 DEF IInv, TypeOK
  <2>5. Echo'
    <3> SUFFICES ASSUME Edited' PROVE Echo'
      BY DEF Echo
    <3>1. Len(screen) = pos /\ \A i \in 1 .. pos : screen[i] = line[i - 1]
      BY <1>2 DEF IInv, Echo, Edited
    <3>2. Len(screen') = pos - 1 /\ \A i \in 1 .. pos - 1 : screen'[i] = screen[i]
      BY <2>1, <2>2, <3>1, <1>3
    <3> QED  BY <3>1, <3>2, <1>2, <2>1, <2>2 DEF Echo
  <2> QED  BY <1>2, <2>4, <2>5, EditStep DEF fileVars
<1>4. CASE ~(pos > 0)
  <2>1. pos' = pos /\ screen' = screen
    BY <1>4 DEF read_backspace, Rubs
  <2>2. TypeOK'
    BY <1>1, <1>2, <2>1 DEF IInv, TypeOK
  <2> QED  BY <1>2, <2>1, <2>2, QuietStep DEF editVars, fileVars
<1> QED  BY <1>3, <1>4

LEMMA read_char_keeps ==
    ASSUME IInv, NEW k \in Byte, read_char(k)
    PROVE  IInv'
<1>1. fifo' \in Seq(Key) /\ Len(fifo') <= FifoSize
  BY ReadTyped DEF IInv, read_char
<1>2. pc = "read" /\ pc' = "read" /\ UNCHANGED <<files, created, ran, rax>>
  BY DEF read_char, fileVars
<1>3. CASE Room
  <2>1. /\ line' = [line EXCEPT ![pos] = k] /\ pos' = pos + 1
        /\ screen' = IF k = NUL THEN screen ELSE Append(screen, k)
    BY <1>3 DEF read_char
  <2>2. garbled' = (garbled \/ k = NUL)
    BY <1>3 DEF read_char
  <2>3. /\ screen \in Seq(Char) /\ line \in [0 .. LINE_MAX - 1 -> Byte]
        /\ pos \in 0 .. LINE_MAX - 1 /\ LINE_MAX \in Nat
    BY ShellConstants DEF IInv, TypeOK
  <2>4. screen' \in Seq(Char)
    BY <2>1, <2>3 DEF Byte
  <2>5. pos' \in 0 .. LINE_MAX - 1 /\ line' \in [0 .. LINE_MAX - 1 -> Byte]
    BY <2>1, <2>3, <1>3 DEF Room
  <2>6. garbled' \in BOOLEAN
    BY <2>2, Zenon
  <2>7. TypeOK'
    BY <1>1, <1>2, <2>4, <2>5, <2>6 DEF IInv, TypeOK
  <2>8. Echo'
    <3> SUFFICES ASSUME Edited' PROVE Echo'
      BY DEF Echo
    <3>1. ~garbled /\ k # NUL
      BY <2>2 DEF Edited
    <3>2. Len(screen) = pos /\ \A i \in 1 .. pos : screen[i] = line[i - 1]
      BY <3>1, <1>2 DEF IInv, Echo, Edited
    <3>3. screen' = Append(screen, k) /\ k \in Char
      BY <3>1, <2>1 DEF Byte
    <3>4. /\ Len(screen') = pos + 1 /\ screen'[pos + 1] = k
          /\ \A i \in 1 .. pos : screen'[i] = screen[i]
      BY <3>2, <3>3, <2>3
    <3>5. line'[pos] = k /\ \A i \in 1 .. pos : line'[i - 1] = line[i - 1]
      BY <2>1, <2>3
    <3>6. \A i \in 1 .. pos + 1 : screen'[i] = line'[i - 1]
      <4> SUFFICES ASSUME NEW i \in 1 .. pos + 1 PROVE screen'[i] = line'[i - 1]
        OBVIOUS
      <4>1. CASE i = pos + 1
        BY <4>1, <3>4, <3>5, <2>3
      <4>2. CASE i \in 1 .. pos
        BY <4>2, <3>2, <3>4, <3>5
      <4> QED  BY <4>1, <4>2, <2>3
    <3> QED  BY <3>4, <3>6, <1>2, <2>1 DEF Echo
  <2> QED  BY <1>2, <2>7, <2>8, EditStep DEF fileVars
<1>4. CASE ~Room
  <2>1. UNCHANGED editVars
    BY <1>4 DEF read_char
  <2>2. TypeOK'
    BY <1>1, <1>2, <2>1 DEF IInv, TypeOK, editVars
  <2> QED  BY <1>2, <2>1, <2>2, QuietStep DEF fileVars
<1> QED  BY <1>3, <1>4

\* The newest file goes to the head of the list.
LEMMA ramfs_create_keeps ==
    ASSUME IInv, ramfs_create
    PROVE  IInv'
<1> DEFINE given == BootFiles[created + 1][1]
           room  == IF Len(given) < RAMFS_NAME_MAX - 1 THEN Len(given) ELSE RAMFS_NAME_MAX - 1
           new == [name |-> SubSeq(given, 1, room), given |-> given, nr |-> created + 1]
<1>1. /\ pc = "boot" /\ pc' = "boot" /\ created' = created + 1
      /\ UNCHANGED <<fifo, editVars, ran, rax>>
      /\ files' = <<new>> \o files \/ files' = files
  BY DEF ramfs_create, ramfs_insert
<1>2. created \in Nat /\ created' \in 0 .. Len(BootFiles) /\ files \in Seq(File)
        /\ created + 1 \in 1 .. Len(BootFiles)
  <2>1. Len(BootFiles) \in Nat
    BY ShellConstants
  <2>2. created \in 0 .. Len(BootFiles) /\ files \in Seq(File) /\ created < Len(BootFiles)
    BY DEF IInv, TypeOK, ramfs_create
  <2> HIDE DEF given, new
  <2> QED  BY <2>1, <2>2, <1>1
<1>3. given \in Seq(Char)
  BY <1>2, ShellConstants
<1>4. new.nr = created + 1 /\ new.given = given /\ new.name = SubSeq(given, 1, room)
  OBVIOUS
<1>5. new \in File /\ (Fitting(new) => new.name = new.given)
  <2> HIDE DEF given
  <2>1. Len(given) \in Nat /\ RAMFS_NAME_MAX \in Nat \ {0}
    BY <1>3, ShellConstants
  <2>2. SubSeq(given, 1, room) \in Seq(Char)
    BY <1>3, <2>1
  <2>3. new \in File
    BY <1>2, <1>3, <2>2 DEF File
  <2>4. ASSUME Len(given) < RAMFS_NAME_MAX PROVE SubSeq(given, 1, room) = given
    <3>1. room = Len(given)
      BY <2>1, <2>4
    <3> QED  BY <3>1, <1>3
  <2> QED  BY <2>3, <2>4, <1>4 DEF Fitting
<1> HIDE DEF given, room, new
<1>6. TypeOK' /\ Listed'
  <2>1. CASE files' = files
    BY <2>1, <1>1, <1>2 DEF IInv, TypeOK, Listed, Fitting, editVars
  <2>2. CASE files' = <<new>> \o files
    <3>1. /\ files' \in Seq(File) /\ Len(files') = Len(files) + 1 /\ files'[1] = new
          /\ \A i \in 1 .. Len(files) : files'[i + 1] = files[i]
      BY <2>2, <1>2, <1>5
    <3>2. \A i \in DOMAIN files' : i = 1 \/ (i - 1 \in DOMAIN files /\ files'[i] = files[i - 1])
      BY <3>1, <1>2
    <3>3. TypeOK'
      BY <3>1, <1>1, <1>2 DEF IInv, TypeOK, editVars
    <3>4. \A i \in DOMAIN files : files[i].nr \in 1 .. created
                                   /\ (Fitting(files[i]) => files[i].name = files[i].given)
      BY DEF IInv, Listed
    <3>5. \A i \in DOMAIN files' : /\ files'[i].nr \in 1 .. created'
                                   /\ Fitting(files'[i]) => files'[i].name = files'[i].given
      <4> SUFFICES ASSUME NEW i \in DOMAIN files'
                   PROVE  /\ files'[i].nr \in 1 .. created'
                          /\ Fitting(files'[i]) => files'[i].name = files'[i].given
        OBVIOUS
      <4>1. CASE i = 1
        BY <4>1, <3>1, <1>1, <1>2, <1>4, <1>5
      <4>2. CASE i - 1 \in DOMAIN files /\ files'[i] = files[i - 1]
        BY <4>2, <3>4, <1>1, <1>2
      <4> QED  BY <4>1, <4>2, <3>2
    <3>6. \A i, j \in DOMAIN files' : i < j => files'[i].nr > files'[j].nr
      <4> SUFFICES ASSUME NEW i \in DOMAIN files', NEW j \in DOMAIN files', i < j
                   PROVE  files'[i].nr > files'[j].nr
        OBVIOUS
      <4>1. i \in Nat /\ j \in Nat /\ i >= 1 /\ j # 1
        BY <3>1
      <4>2. j - 1 \in DOMAIN files /\ files'[j] = files[j - 1]
        BY <4>1, <3>2
      <4>3. CASE i = 1
        BY <4>2, <4>3, <3>1, <3>4, <1>2, <1>4
      <4>4. CASE i # 1
        <5>1. i - 1 \in DOMAIN files /\ files'[i] = files[i - 1] /\ i - 1 < j - 1
          BY <4>1, <4>4, <3>2
        <5> QED  BY <5>1, <4>2 DEF IInv, Listed
      <4> QED  BY <4>3, <4>4
    <3>7. Listed'
      BY <3>5, <3>6 DEF Listed, Fitting
    <3> QED  BY <3>3, <3>7
  <2> QED  BY <2>1, <2>2, <1>1
<1>7. Echo' /\ ExecFindsNewest'
  BY <1>1 DEF Echo, Edited, ExecFindsNewest
<1> QED  BY <1>6, <1>7 DEF IInv

\* handle_exec looks the shown name up: what it finds is the newest of that name.
LEMMA handle_exec_keeps ==
    ASSUME IInv, handle_exec
    PROVE  IInv'
<1>1. /\ pc = "command" /\ pc' \in {"child", "result"}
      /\ UNCHANGED <<fifo, editVars, fileVars>>
      /\ ran' = ramfs_find(Command) \/ (ran' = NoFile /\ Len(Command) \notin 1 .. ExecNameMax)
      /\ rax' \in {rax, -1}
  BY DEF handle_exec
<1>2. ran' = NoFile \/ \E i \in DOMAIN files : ran' = files[i]
  <2>1. TypeOK
    BY DEF IInv
  <2> QED  BY <1>1, <2>1, Finds
<1>3. TypeOK'
  <2>1. ran' \in File
    <3>1. files \in Seq(File)
      BY DEF IInv, TypeOK
    <3>2. NoFile \in File
      BY DEF NoFile, File
    <3> QED  BY <1>2, <3>1, <3>2
  <2>2. rax' \in Int
    BY <1>1 DEF IInv, TypeOK
  <2> QED  BY <2>1, <2>2, <1>1 DEF IInv, TypeOK, editVars, fileVars
<1>4. Listed' /\ Echo'
  BY <1>1 DEF IInv, Listed, Fitting, Echo, Edited, editVars, fileVars
<1>5. ExecFindsNewest'
  <2> SUFFICES ASSUME ~garbled
               PROVE  /\ (Fitting(ran') /\ ran' # NoFile) => ran'.given = screen
                      /\ \A f \in Range(files) :
                            Fitting(f) /\ f.given = screen => f.nr <= ran'.nr
    BY <1>1 DEF ExecFindsNewest, Fitting, editVars, fileVars
  <2>1. TypeOK /\ Listed /\ pos > 0 /\ Len(screen) = pos /\ line[pos] = NUL
          /\ \A i \in 1 .. pos : screen[i] = line[i - 1]
    BY <1>1 DEF IInv, Echo, Edited
  <2>2. Command = screen
    BY <2>1, CommandShown
  <2>3. \A i \in DOMAIN files : /\ files[i] \in File /\ files[i].nr \in Nat /\ files[i].nr > 0
                                /\ Fitting(files[i]) => files[i].name = files[i].given
    <3>1. files \in Seq(File) /\ created \in Nat
      BY <2>1 DEF TypeOK
    <3>2. \A i \in DOMAIN files : files[i] \in File
      BY <3>1
    <3> QED  BY <2>1, <3>1, <3>2 DEF Listed
  <2>4. \A f \in Range(files) : \E i \in DOMAIN files : f = files[i]
    BY DEF Range
  <2>5. CASE ran' = ramfs_find(screen) /\ ran' # NoFile
    <3>1. PICK i \in DOMAIN files :
             /\ ran' = files[i] /\ files[i].name = screen
             /\ \A j \in DOMAIN files : files[j].name = screen => i <= j
      BY <2>1, <2>5, Finds
    <3>2. ASSUME NEW j \in DOMAIN files, Fitting(files[j]), files[j].given = screen
          PROVE  files[j].nr <= files[i].nr
      <4>1. i <= j
        <5>1. files[j].name = screen
          BY <3>2, <2>3
        <5> QED  BY <5>1, <3>1
      <4>4. i \in Int /\ j \in Int
        BY <2>1 DEF TypeOK
      <4>2. CASE i = j
        BY <4>2, <2>3
      <4>3. CASE i < j
        BY <4>3, <2>1, <2>3 DEF Listed
      <4> QED  BY <4>1, <4>2, <4>3, <4>4
    <3> QED  BY <3>1, <3>2, <2>3, <2>4
  <2>6. CASE ran' = NoFile
    <3>1. ASSUME NEW j \in DOMAIN files, Fitting(files[j]), files[j].given = screen
          PROVE  FALSE
      <4>1. files[j].name = screen
        BY <3>1, <2>3
      <4>2. Len(screen) < RAMFS_NAME_MAX /\ Len(screen) > 0 /\ Len(screen) \in Nat
        BY <3>1, <2>1 DEF Fitting, TypeOK
      <4>3. Len(Command) \in 1 .. ExecNameMax
        BY <4>2, <2>2, ShellConstants
      <4>4. ramfs_find(screen) = NoFile
        BY <4>3, <1>1, <2>2, <2>6
      <4>5. \A i \in DOMAIN files : files[i] # NoFile
        BY <2>3 DEF NoFile
      <4> QED  BY <4>1, <4>4, <4>5, <2>1, Finds
    <3> QED  BY <3>1, <2>4, <2>6
  <2> QED  BY <2>2, <2>5, <2>6, <1>1
<1> QED  BY <1>3, <1>4, <1>5 DEF IInv

\* The other steps.
LEMMA others_keep ==
    ASSUME IInv,
           \/ boot \/ command_ls \/ command_exit \/ exec_result \/ unknown \/ handle_exit
           \/ \E nr \in 0 .. MAX_SYSCALLS : syscall_dispatch(nr)
           \/ UNCHANGED vars
    PROVE  IInv'
<1>1. /\ UNCHANGED <<editVars, fileVars, ran>>
      /\ pc' = pc \/ pc' \in {"prompt", "unknown", "halt"} \/ (pc = "child" /\ pc' = "result")
  BY DEF boot, command_ls, command_exit, exec_result, unknown, handle_exit, syscall_dispatch,
         sys_read, sys_write, sys_listfiles, vars,
         editVars, fileVars
<1>2. fifo' = fifo \/ (fifo # <<>> /\ fifo' = Tail(fifo))
  BY DEF boot, command_ls, command_exit, exec_result, unknown, handle_exit, syscall_dispatch,
         sys_read, sys_write, sys_listfiles, vars
<1>3. fifo' \in Seq(Key) /\ Len(fifo') <= FifoSize
  <2>1. fifo \in Seq(Key) /\ Len(fifo) <= FifoSize /\ Len(fifo) \in Nat /\ FifoSize \in Nat
    BY ShellConstants DEF IInv, TypeOK
  <2>2. CASE fifo # <<>> /\ fifo' = Tail(fifo)
    <3>1. Tail(fifo) \in Seq(Key) /\ Len(Tail(fifo)) = Len(fifo) - 1
      BY <2>1, <2>2
    <3> QED  BY <3>1, <2>1, <2>2
  <2> QED  BY <2>1, <2>2, <1>2
<1>4. rax' \in Int
  BY DEF boot, command_ls, command_exit, exec_result, unknown, handle_exit, syscall_dispatch,
         sys_read, sys_write, sys_listfiles, vars, IInv, TypeOK
<1>5. TypeOK'
  BY <1>1, <1>3, <1>4 DEF IInv, TypeOK, editVars, fileVars
<1> QED  BY <1>1, <1>5, QuietStep

-----------------------------------------------------------------------------

\* The line editor, the system calls and the file list keep the invariant.
THEOREM ShellInvariant == Spec => []IInv
<1>1. Init => IInv
  <2> SUFFICES ASSUME Init PROVE IInv
    OBVIOUS
  <2>1. 0 \in 0 .. LINE_MAX - 1 /\ NoFile \in File /\ 0 \in 0 .. Len(BootFiles)
    BY ShellConstants DEF NoFile, File
  <2>2. garbled \in BOOLEAN
    BY Zenon DEF Init
  <2>3. fifo \in Seq(Key) /\ Len(fifo) <= FifoSize /\ screen \in Seq(Char) /\ files \in Seq(File)
    BY ShellConstants DEF Init
  <2>4. TypeOK
    BY <2>1, <2>2, <2>3 DEF Init, TypeOK
  <2>5. Echo /\ ExecFindsNewest
    BY DEF Init, Echo, Edited, ExecFindsNewest
  <2>6. Listed
    BY DEF Init, Listed
  <2> QED  BY <2>4, <2>5, <2>6 DEF IInv
<1>2. IInv /\ [Next]_vars => IInv'
  <2> SUFFICES ASSUME IInv, [Next]_vars PROVE IInv'
    OBVIOUS
  <2>1. CASE ramfs_create    BY <2>1, ramfs_create_keeps
  <2>2. CASE prompt          BY <2>2, prompt_keeps
  <2>3. CASE read_enter      BY <2>3, read_enter_keeps
  <2>4. CASE read_backspace  BY <2>4, read_backspace_keeps
  <2>5. CASE \E k \in Byte : read_char(k)
    BY <2>5, read_char_keeps
  <2>6. CASE handle_exec     BY <2>6, handle_exec_keeps
  <2>7. CASE \E k \in Key : receive(k)
    BY <2>7, receive_keeps
  <2>8. CASE \/ boot \/ command_ls \/ command_exit \/ exec_result \/ unknown \/ handle_exit
             \/ \E nr \in 0 .. MAX_SYSCALLS : syscall_dispatch(nr)
             \/ UNCHANGED vars
    BY <2>8, others_keep
  <2> QED
    BY <2>1, <2>2, <2>3, <2>4, <2>5, <2>6, <2>7, <2>8 DEF Next, Step, Halted
<1> QED  BY <1>1, <1>2, PTL DEF Spec

\* The types hold for every instance: pos never leaves the array line of _start.
THEOREM ShellTypeOK == Spec => []TypeOK
<1>1. IInv => TypeOK
  BY DEF IInv
<1> QED  BY <1>1, ShellInvariant, PTL

\* For every LINE_MAX: the command that _start compares and executes is the line
\* the terminal shows, unless a NUL was typed.
THEOREM CommandIsShownAlways == Spec => []CommandIsShown
<1>1. IInv => CommandIsShown
  BY CommandShown DEF IInv, Echo, Edited, CommandIsShown
<1> QED  BY <1>1, ShellInvariant, PTL

\* For every list of boot files and both name limits: what handle_exec gets from
\* ramfs_find is the newest file created under the shown name.
THEOREM ExecFindsNewestAlways == Spec => []ExecFindsNewest
<1>1. IInv => ExecFindsNewest
  BY DEF IInv
<1> QED  BY <1>1, ShellInvariant, PTL

=============================================================================

------------------------------- MODULE Shell --------------------------------
(***************************************************************************)
(* The console: the line editor of src/user/shell.c, the system calls it   *)
(* makes (syscall.c), the file list of ramfs.c they look names up in, and  *)
(* the receive FIFO of the serial port that sys_read polls.                *)
(*                                                                         *)
(* A character is a model character; a name is a sequence of them.  line   *)
(* is the array on the stack of the shell: it starts with whatever the     *)
(* stack held, and each line overwrites what the last one left.  screen is *)
(* what the terminal shows after the prompt.  Loading a program and its    *)
(* exit are the subject of module Exec; here exec fails, or the program    *)
(* runs until it exits.                                                    *)
(***************************************************************************)
EXTENDS Integers, Sequences, SequencesExt

CONSTANTS
    Char,               \* printable characters
    LINE_MAX, RAMFS_NAME_MAX, MAX_SYSCALLS,
    ExecNameMax,        \* longest name handle_exec accepts, 127
    FifoSize,           \* receive FIFO of the serial port, 16
    Ls, Exit,           \* the names of the built-in commands
    BootFiles           \* the <<name, size>> kernel_main creates, in order

NUL == "NUL"
Key == Char \cup {NUL, "CR", "BS"}
Byte == Char \cup {NUL}

ASSUME ShellConstants ==
    /\ LINE_MAX \in Nat /\ LINE_MAX > 1 /\ RAMFS_NAME_MAX \in Nat \ {0}
    /\ ExecNameMax \in Nat /\ ExecNameMax >= RAMFS_NAME_MAX - 1 /\ MAX_SYSCALLS \in Nat /\ FifoSize \in Nat
    /\ Char \cap {NUL, "CR", "BS"} = {}
    /\ BootFiles \in Seq(Seq(Char) \X Nat)
    /\ {Ls, Exit} \subseteq Seq(Char)

VARIABLES
    fifo,       \* bytes received and not read
    line, pos,  \* of the shell
    screen,
    garbled,    \* history: a NUL, which a terminal does not show, was typed
    files,      \* file_list
    created,    \* the calls of ramfs_create made
    pc,
    ran,        \* history: the file that the last exec found
    rax         \* result of the last system call

vars == <<fifo, line, pos, screen, garbled, files, created, pc, ran, rax>>
editVars == <<line, pos, screen, garbled>>
fileVars == <<files, created>>

\* name is what the node holds; given and nr record the call that made it.
File == [name : Seq(Char), given : Seq(Char), nr : Nat]
NoFile == [name |-> <<>>, given |-> <<>>, nr |-> 0]

TypeOK ==
    /\ fifo \in Seq(Key) /\ Len(fifo) <= FifoSize
    /\ line \in [0 .. LINE_MAX - 1 -> Byte] /\ pos \in 0 .. LINE_MAX - 1
    /\ screen \in Seq(Char) /\ garbled \in BOOLEAN
    /\ files \in Seq(File) /\ created \in 0 .. Len(BootFiles)
    /\ pc \in {"boot", "prompt", "read", "command", "result", "unknown", "child", "halt"}
    /\ ran \in File
    /\ rax \in Int

Init ==
    /\ fifo = <<>>
    /\ line \in [0 .. LINE_MAX - 1 -> Byte] /\ pos = 0
    /\ screen = <<>> /\ garbled = FALSE
    /\ files = <<>> /\ created = 0
    /\ pc = "boot"
    /\ ran = NoFile
    /\ rax = 0

\* A key arrives; with the FIFO full it is lost.
receive(k) ==
    /\ pc \notin {"boot", "halt"}
    /\ fifo' = IF Len(fifo) < FifoSize THEN Append(fifo, k) ELSE fifo
    /\ UNCHANGED <<editVars, fileVars, pc, ran, rax>>

(***************************************************************************)
(* ramfs.c.                                                                *)
(***************************************************************************)

\* Fault: the new file goes to the end of the list.
ramfs_insert_last(f) == Append(files, f)

ramfs_insert(f) == <<f>> \o files

\* A file with its name cut to fit.  kmalloc may fail for the node or for the
\* data, and fails for no data; then nothing is added.
ramfs_create ==
    /\ pc = "boot" /\ created < Len(BootFiles)
    /\ LET given == BootFiles[created + 1][1]
           size  == BootFiles[created + 1][2]
           cut   == SubSeq(given, 1, IF Len(given) < RAMFS_NAME_MAX - 1
                                     THEN Len(given) ELSE RAMFS_NAME_MAX - 1)
       IN  \/ files' = ramfs_insert([name |-> cut, given |-> given,
                                    nr |-> created + 1]) /\ size > 0
           \/ UNCHANGED files
    /\ created' = created + 1
    /\ UNCHANGED <<fifo, editVars, pc, ran, rax>>

\* The first file of the list with that name, or NoFile.
ramfs_find(name) ==
    LET hits == {i \in DOMAIN files : files[i].name = name}
    IN  IF hits = {} THEN NoFile ELSE files[CHOOSE i \in hits : \A j \in hits : i <= j]

\* kernel_main starts the shell.
boot ==
    /\ pc = "boot" /\ created = Len(BootFiles)
    /\ pc' = "prompt"
    /\ UNCHANGED <<fifo, editVars, fileVars, ran, rax>>

(***************************************************************************)
(* The line editor.                                                        *)
(***************************************************************************)

prompt ==
    /\ pc = "prompt"
    /\ pos' = 0 /\ screen' = <<>> /\ garbled' = FALSE /\ ran' = NoFile
    /\ pc' = "read"
    /\ UNCHANGED <<fifo, line, fileVars, rax>>

\* sys_read waits for a byte and takes it.
ReadChar(k) == fifo # <<>> /\ k = Head(fifo) /\ fifo' = Tail(fifo)

\* Fault: the line is not terminated.
Terminated_not == line

\* What the terminating NUL makes of the array.
Terminated == [line EXCEPT ![pos] = NUL]

read_enter ==
    /\ pc = "read" /\ ReadChar("CR")
    /\ line' = Terminated
    /\ pc' = IF pos = 0 THEN "prompt" ELSE "command"
    /\ UNCHANGED <<pos, screen, garbled, fileVars, ran, rax>>

\* Fault: a backspace at the start of the line is not taken from the port.
Rubs_none == pos > 0 /\ pos' = pos - 1 /\ screen' = SubSeq(screen, 1, Len(screen) - 1)

\* Echoed as back, blank, back: the last character shown disappears.
Rubs ==
    IF pos > 0
    THEN pos' = pos - 1 /\ screen' = SubSeq(screen, 1, Len(screen) - 1)
    ELSE UNCHANGED <<pos, screen>>

read_backspace ==
    /\ pc = "read" /\ ReadChar("BS")
    /\ Rubs
    /\ UNCHANGED <<line, garbled, fileVars, pc, ran, rax>>

\* Fault: the room for the NUL is forgotten.
Room_all == pos < LINE_MAX

Room == pos < LINE_MAX - 1

read_char(k) ==
    /\ pc = "read" /\ ReadChar(k)
    /\ IF Room
       THEN /\ line' = [line EXCEPT ![pos] = k] /\ pos' = pos + 1
            /\ screen' = IF k = NUL THEN screen ELSE Append(screen, k)
            /\ garbled' = (garbled \/ k = NUL)
       ELSE UNCHANGED editVars
    /\ UNCHANGED <<fileVars, pc, ran, rax>>

(***************************************************************************)
(* Commands and system calls.                                              *)
(***************************************************************************)

\* The C string in the array: up to the first NUL, the end of the array if none.
Command ==
    LET Stops(n) == n = LINE_MAX \/ line[n] = NUL
        len == CHOOSE n \in 0 .. LINE_MAX : Stops(n) /\ \A m \in 0 .. n - 1 : ~Stops(m)
    IN  [i \in 1 .. len |-> line[i - 1]]

command_ls ==
    /\ pc = "command" /\ Command = Ls
    /\ pc' = "prompt"
    /\ rax' = 0
    /\ UNCHANGED <<fifo, editVars, fileVars, ran>>

\* handle_exit without a child.
command_exit ==
    /\ pc = "command" /\ Command = Exit
    /\ pc' = "halt"
    /\ UNCHANGED <<fifo, editVars, fileVars, ran, rax>>

\* handle_exec: refused for its length, for an unknown name or because the
\* program cannot be loaded, or else the program starts.
handle_exec ==
    /\ pc = "command" /\ Command \notin {Ls, Exit}
    /\ LET f == ramfs_find(Command)
           valid == Len(Command) \in 1 .. ExecNameMax
       IN  \/ valid /\ f # NoFile /\ ran' = f /\ pc' = "child" /\ UNCHANGED rax
           \/ rax' = -1 /\ pc' = "result" /\ ran' = IF valid THEN f ELSE NoFile
    /\ UNCHANGED <<fifo, editVars, fileVars>>

\* Back in the shell with the result of sys_exec; "unknown command" is printed if
\* it is negative.
exec_result ==
    /\ pc = "result"
    /\ pc' = IF rax < 0 THEN "unknown" ELSE "prompt"
    /\ UNCHANGED <<fifo, editVars, fileVars, ran, rax>>

unknown ==
    /\ pc = "unknown"
    /\ pc' = "prompt"
    /\ UNCHANGED <<fifo, editVars, fileVars, ran, rax>>

\* The calls of a running program.  sys_read returns the byte, sys_write refuses a
\* null buffer and one that wraps around.
sys_read == fifo # <<>> /\ fifo' = Tail(fifo) /\ rax' \in {0, 1}
sys_write == rax' \in {-1, 0, 1} /\ UNCHANGED fifo
sys_listfiles == rax' = 0 /\ UNCHANGED fifo

syscall_dispatch(nr) ==
    /\ pc = "child"
    /\ \/ nr = 0 /\ sys_read
       \/ nr = 1 /\ sys_write
       \/ nr = 2 /\ sys_listfiles
       \/ nr \notin 0 .. 4 /\ rax' = -1 /\ UNCHANGED fifo
    /\ UNCHANGED <<editVars, fileVars, pc, ran>>

\* handle_exit with a child: the shell's frame is restored, sys_exec returns 0.
handle_exit ==
    /\ pc = "child"
    /\ pc' = "result"
    /\ rax' = 0
    /\ UNCHANGED <<fifo, editVars, fileVars, ran>>

Halted == pc = "halt" /\ UNCHANGED vars

\* What the kernel and the shell do by themselves.
Step ==
    \/ ramfs_create \/ boot \/ prompt
    \/ read_enter \/ read_backspace \/ \E k \in Byte : read_char(k)
    \/ command_ls \/ command_exit \/ handle_exec \/ exec_result \/ unknown

Next ==
    \/ Step
    \/ \E k \in Key : receive(k)
    \/ \E nr \in 0 .. MAX_SYSCALLS : syscall_dispatch(nr)
    \/ handle_exit
    \/ Halted

Spec == Init /\ [][Next]_vars /\ WF_vars(Step)

(***************************************************************************)
(* Properties.                                                             *)
(***************************************************************************)

\* The command the shell runs is the line the terminal shows, whatever was typed,
\* rubbed out or typed beyond the end of the buffer, and whatever earlier and
\* longer lines left in the array.
CommandIsShown == (pc = "command" /\ ~garbled) => Command = screen

\* exec finds the newest file that was created under the name that is shown; a
\* name too long for ramfs is found under its beginning only, and then hides
\* older files of that name.
ExecFindsNewest ==
    LET Fits(f) == Len(f.given) < RAMFS_NAME_MAX
        Named == {f \in Range(files) : Fits(f) /\ f.given = screen}
    IN  (pc \in {"child", "result"} /\ ~garbled) =>
            /\ (Fits(ran) /\ ran # NoFile) => ran.given = screen
            /\ \A f \in Named : f.nr <= ran.nr

\* An Enter that was received ends the line and is answered: the prompt comes
\* back, unless the command was exit or started a program.
EnterAnswered ==
    (pc = "read" /\ "CR" \in Range(fifo)) ~> pc \in {"prompt", "child", "halt"}

=============================================================================

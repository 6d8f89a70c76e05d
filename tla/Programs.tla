------------------------------ MODULE Programs ------------------------------
(***************************************************************************)
(* A command line from the keyboard to the output of the program: the      *)
(* shell, check_command, getargs and the utilities ls, cat and grep, on    *)
(* the string functions of ece391support.c and of lib.c.  Files are read   *)
(* as FileRead shows them to be read: in order, and short only at the end. *)
(***************************************************************************)
EXTENDS Integers, Sequences, SequencesExt, FiniteSets, FiniteSetsExt

CONSTANTS
    BUFSIZE,       \* buffer of cat and grep
    NAME_LENGTH,   \* MAX_FNAME_LENGTH
    CMD_LENGTH,    \* MAX_CMD_LENGTH
    WORD,          \* bytes of a machine word
    Directory,     \* the entries [fname, type], in order
    Executable,    \* which program each executable's name starts
    Text,          \* the entry of the text file
    Chars,         \* characters of the text
    LENGTH_MAX,    \* longest text
    Lines,         \* what is typed at the prompt
    Stale          \* what uninitialised stack bytes hold

NUL == "nul"
NL == "newline"
SPACE == " "
EXIT == <<"e", "x", "i", "t">>

VARIABLES
    text,        \* contents of the text file
    pc,          \* where the shell or the program is
    buf,         \* the shell's line
    cmd_args,    \* pcb_t.cmd_args: its CMD_LENGTH bytes
    args,        \* what the program got from getargs, as a string
    program,     \* the program that runs
    entry,       \* file_position of the directory's descriptor
    position,    \* file_position of the file's descriptor
    fname,       \* do_one_file's file name
    data, last, cnt, line_start,   \* do_one_file's other locals
    out          \* bytes the program has written to descriptor 1

files == <<entry, position, fname>>
locals == <<data, last, cnt, line_start>>
vars == <<text, pc, buf, cmd_args, args, program, files, locals, out>>

-----------------------------------------------------------------------------
\* strlen of lib.c and ece391_strlen: the bytes from index k on, up to the
\* terminator.
String(bytes, k) ==
    LET ends == {i \in DOMAIN bytes : i >= k /\ bytes[i] = NUL}
        end == IF ends = {} THEN Max(DOMAIN bytes) + 1 ELSE Min(ends)
    IN  [i \in 1 .. end - k |-> bytes[k + i - 1]]

\* memcpy of lib.c to an address a: single bytes up to a word boundary, whole
\* words, and the bytes left over.
memcpy(dest, src, n, a) ==
    LET top == Min({n, (WORD - (a % WORD)) % WORD})
        aligned == ((n - top) \div WORD) * WORD
        bottom == (n - top) % WORD
    IN  [i \in DOMAIN dest |-> IF i < top + aligned + bottom THEN src[i] ELSE dest[i]]

\* ece391_strcpy(bytes, bytes + k): an ascending copy with its terminator.
strcpy_down(bytes, k) ==
    LET n == Len(String(bytes, k))
    IN  [i \in DOMAIN bytes |-> IF i =< n /\ i + k \in DOMAIN bytes THEN bytes[i + k] ELSE bytes[i]]

\* ece391_strncmp(s, t, Len(t)) = 0 for a string t without NUL.
strncmp(s, t) == Len(s) >= Len(t) /\ SubSeq(s, 1, Len(t)) = t

-----------------------------------------------------------------------------
Garbage(n) == {[i \in 0 .. n - 1 |-> c] : c \in Stale}

Init ==
    /\ text \in UNION {[1 .. k -> Chars] : k \in 0 .. LENGTH_MAX}
    /\ pc = "shell" /\ buf = << >> /\ args = << >> /\ program = "shell"
    /\ cmd_args \in Garbage(CMD_LENGTH)
    /\ entry = 0 /\ position = 0 /\ fname = << >>
    /\ data \in Garbage(BUFSIZE + 1) /\ last = 0 /\ cnt = 0 /\ line_start = 0
    /\ out = << >>

\* The shell: terminal_read delivers the line and a newline; the shell takes
\* the newline off, and does nothing for an empty line.
ShellRead ==
    /\ pc = "shell"
    /\ \E line \in Lines :
         LET read == Append(line, NL)
             n == Len(read) - (IF read[Len(read)] = NL THEN 1 ELSE 0)
         IN  buf' = SubSeq(read, 1, n)
    /\ pc' = IF buf' = << >> THEN "shell" ELSE IF buf' = EXIT THEN "exit" ELSE "execute"
    /\ UNCHANGED <<text, cmd_args, args, program, files, locals, out>>

\* "exit" ends the shell; halt of a terminal's last process starts another.
ShellExit ==
    /\ pc = "exit"
    /\ pc' = "shell"
    /\ UNCHANGED <<text, buf, cmd_args, args, program, files, locals, out>>

\* check_command's three loops: the name ends at the first space, the
\* arguments begin at the first character after it that is none.
ExecName(command) ==
    LET spaces == {i \in DOMAIN command : command[i] = SPACE}
    IN  IF spaces = {} THEN command ELSE SubSeq(command, 1, Min(spaces) - 1)
ArgStart(command) ==
    LET n == Len(ExecName(command))
    IN  Min({i \in n + 1 .. Len(command) + 1 : i > Len(command) \/ command[i] # SPACE})
exec_args(command) == SubSeq(command, ArgStart(command), Len(command))

\* The bytes of exec_args after check_command; the variant leaves out the
\* terminator.
Stored_open(bytes, s) == [i \in DOMAIN bytes |-> IF i < Len(s) THEN s[i + 1] ELSE bytes[i]]
Stored(bytes, s) ==
    [i \in DOMAIN bytes |->
        IF i < Len(s) THEN s[i + 1] ELSE IF i = Len(s) THEN NUL ELSE bytes[i]]

\* execute: a leading space or an unknown name is refused.
Refused == buf[1] = SPACE \/ ExecName(buf) \notin DOMAIN Executable
ExecuteRefused ==
    /\ pc = "execute" /\ Refused
    /\ cmd_args' = IF buf[1] = SPACE THEN cmd_args ELSE Stored(cmd_args, exec_args(buf))
    /\ pc' = "shell"
    /\ UNCHANGED <<text, buf, args, program, files, locals, out>>
Execute ==
    /\ pc = "execute" /\ ~Refused
    /\ cmd_args' = Stored(cmd_args, exec_args(buf))
    /\ program' = Executable[ExecName(buf)]
    /\ pc' = "main"
    /\ out' = << >> /\ entry' = 0
    /\ UNCHANGED <<text, buf, args, position, fname, locals>>

\* getargs with a buffer as large as cmd_args or larger.
GetArgs ==
    /\ pc = "main" /\ program \in {"cat", "grep"}
    /\ \E junk \in Garbage(CMD_LENGTH), a \in 0 .. WORD - 1 :
         args' = String(memcpy(junk, cmd_args, CMD_LENGTH, a), 0)
    /\ pc' = IF program = "cat" THEN "cat_open" ELSE "grep_dir"
    /\ UNCHANGED <<text, buf, cmd_args, program, files, locals, out>>

-----------------------------------------------------------------------------
\* A name in the directory is padded with NULs and followed by its type.
EntryBytes(e) ==
    [i \in 0 .. NAME_LENGTH + 1 |->
        IF i < Len(e.fname) THEN e.fname[i + 1]
        ELSE IF i = NAME_LENGTH THEN e.type ELSE NUL]

\* read_dir: the next name, of the length strlen finds, in the caller's
\* buffer at address a.
read_dir(e, a) ==
    LET bytes == EntryBytes(e)
        n == Len(String(bytes, 0))
        filled == memcpy([i \in DOMAIN bytes |-> NUL], bytes, n, a)
    IN  [i \in 1 .. n |-> filled[i - 1]]

\* read_file: the next bytes of the file, n at most.  Text is the only
\* regular file with text in it; an executable begins with bytes that are
\* none, and a read of rtc returns 0.
ContentsOf(name) ==
    IF name = Text.fname THEN text
    ELSE IF name \in DOMAIN Executable THEN <<NUL>> ELSE << >>
read_file(name, n) ==
    LET c == ContentsOf(name) IN SubSeq(c, position + 1, Min({Len(c), position + n}))
Found(name) == \E i \in DOMAIN Directory : Directory[i].fname = name

\* ls.
LsRead ==
    /\ pc = "main" /\ program = "ls"
    /\ entry < Len(Directory)
    /\ \E a \in 0 .. WORD - 1 : out' = out \o Append(read_dir(Directory[entry + 1], a), NL)
    /\ entry' = entry + 1
    /\ UNCHANGED <<text, pc, buf, cmd_args, args, program, position, fname, locals>>
LsEnd ==
    /\ pc = "main" /\ program = "ls"
    /\ entry >= Len(Directory)
    /\ pc' = "done"
    /\ UNCHANGED <<text, buf, cmd_args, args, program, files, locals, out>>

\* cat: a file that is not there is reported, others are copied.
CatOpen ==
    /\ pc = "cat_open"
    /\ fname' = args /\ position' = 0
    /\ pc' = IF Found(args) THEN "cat_read" ELSE "done"
    /\ UNCHANGED <<text, buf, cmd_args, args, program, entry, locals, out>>
CatRead ==
    /\ pc = "cat_read"
    /\ LET got == read_file(fname, BUFSIZE)
       IN  /\ out' = out \o got
           /\ position' = position + Len(got)
           /\ pc' = IF got = << >> THEN "done" ELSE "cat_read"
    /\ UNCHANGED <<text, buf, cmd_args, args, program, entry, fname, locals>>

-----------------------------------------------------------------------------
\* grep's main: every name of the directory but ".".  do_one_file starts
\* with its buffer uninitialised.
GrepNext ==
    /\ pc = "grep_dir"
    /\ entry < Len(Directory)
    /\ entry' = entry + 1
    /\ \E a \in 0 .. WORD - 1, junk \in Garbage(BUFSIZE + 1) :
         LET name == read_dir(Directory[entry + 1], a)
         IN  IF name[1] = "."
             THEN UNCHANGED <<pc, fname, position, locals>>
             ELSE /\ fname' = name /\ position' = 0
                  /\ data' = junk /\ last' = 0 /\ cnt' = 0 /\ line_start' = 0
                  /\ pc' = IF Found(name) THEN "file_read" ELSE "done"
    /\ UNCHANGED <<text, buf, cmd_args, args, program, out>>
GrepEnd ==
    /\ pc = "grep_dir"
    /\ entry >= Len(Directory)
    /\ pc' = "done"
    /\ UNCHANGED <<text, buf, cmd_args, args, program, files, locals, out>>

\* do_one_file's read, behind what the last one left.
FileRead ==
    /\ pc = "file_read"
    /\ LET got == read_file(fname, BUFSIZE - last)
       IN  /\ cnt' = Len(got)
           /\ data' = [i \in DOMAIN data |->
                         IF i \in last .. last + Len(got) - 1 THEN got[i - last + 1] ELSE data[i]]
           /\ last' = last + Len(got)
           /\ position' = position + Len(got)
    /\ line_start' = 0
    /\ pc' = "file_scan"
    /\ UNCHANGED <<text, buf, cmd_args, args, program, entry, fname, out>>

line_end == Min({i \in line_start .. BUFSIZE : i >= last \/ data[i] = NL})

\* A line that goes on behind the buffer, unless the buffer is all of it.
\* The variant takes it for a line.
Partial_never == FALSE
Partial == data[line_end] # NL /\ cnt # 0 /\ line_start # 0

\* The partial line is moved down, and the next read goes behind it.
KeepPartial ==
    /\ pc = "file_scan" /\ Partial
    /\ data' = strcpy_down([data EXCEPT ![line_end] = NUL], line_start)
    /\ last' = last - line_start
    /\ pc' = "file_read"
    /\ UNCHANGED <<text, buf, cmd_args, args, program, files, cnt, line_start, out>>

\* The search: the line is printed once, behind the name of its file.
SearchLine ==
    /\ pc = "file_scan" /\ ~Partial
    /\ LET bytes == [data EXCEPT ![line_end] = NUL]
           first == IF args = << >> THEN NUL ELSE args[1]
           hit == \E check \in line_start .. line_end - 1 :
                    /\ first = bytes[check]
                    /\ strncmp(String(bytes, check), args)
       IN  /\ data' = bytes
           /\ out' = IF hit THEN out \o fname \o <<":">> \o Append(String(bytes, line_start), NL) ELSE out
    /\ line_start' = line_end + 1
    /\ IF line_start' >= last
       THEN last' = 0 /\ pc' = IF cnt = 0 THEN "grep_dir" ELSE "file_read"
       ELSE UNCHANGED <<last, pc>>
    /\ UNCHANGED <<text, buf, cmd_args, args, program, files, cnt>>

\* main returns and the shell goes on.
Return ==
    /\ pc = "done"
    /\ pc' = "shell" /\ program' = "shell"
    /\ UNCHANGED <<text, buf, cmd_args, args, files, locals, out>>

Next ==
    \/ ShellRead \/ ShellExit \/ ExecuteRefused \/ Execute \/ GetArgs
    \/ LsRead \/ LsEnd \/ CatOpen \/ CatRead
    \/ GrepNext \/ GrepEnd \/ FileRead \/ KeepPartial \/ SearchLine \/ Return

Spec == Init /\ [][Next]_vars

-----------------------------------------------------------------------------
\* Words of a typed line, and lines of a text: the pieces between separators.
Pieces(s, sep) ==
    LET cuts == {0} \cup {i \in DOMAIN s : s[i] = sep} \cup {Len(s) + 1}
        ordered == SetToSortSeq(cuts, <)
    IN  [k \in 1 .. Len(ordered) - 1 |-> SubSeq(s, ordered[k] + 1, ordered[k + 1] - 1)]

\* What a program gets as its argument is the typed line without its first
\* word and the spaces behind it, whatever earlier commands left in the
\* process's memory (check_command, getargs, memcpy).
ArgsDelivered ==
    pc \in {"cat_open", "cat_read", "grep_dir"} =>
        LET word == SelectSeq(Pieces(buf, SPACE), LAMBDA w : w # << >>)[1]
        IN  /\ Executable[word] = program
            /\ args = << >> \/ args[1] # SPACE
            /\ \E k \in 0 .. Len(buf) :
                 buf = word \o [i \in 1 .. k |-> SPACE] \o args

Occurs(line, s) == \E i \in 0 .. Len(line) - Len(s) : SubSeq(line, i + 1, i + Len(s)) = s
Matches == SelectSeq(Pieces(text, NL), LAMBDA line : Occurs(line, args))
Printed(line) == Text.fname \o <<":">> \o Append(line, NL)

\* What a finished program has written: ls every name on a line of its own,
\* cat the file, grep every line that contains its argument, in order, once
\* and whole, wherever the buffer's ends fell (the loops of ls, cat and
\* do_one_file).  For grep no line is longer than the buffer, and there is
\* an argument.
OutputExact ==
    pc = "done" =>
        CASE program = "ls" ->
               out = FlattenSeq([i \in DOMAIN Directory |-> Append(Directory[i].fname, NL)])
          [] program = "cat" ->
               out = (IF args = Text.fname THEN text ELSE ContentsOf(args))
          [] program = "grep" ->
               (args # << >> /\ \A i \in DOMAIN Pieces(text, NL) : Len(Pieces(text, NL)[i]) =< BUFSIZE)
                 => out = FlattenSeq([i \in DOMAIN Matches |-> Printed(Matches[i])])
=============================================================================

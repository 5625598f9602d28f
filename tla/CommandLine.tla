----------------------------- MODULE CommandLine -----------------------------
(***************************************************************************)
(* What rpmctl makes of its command line: router::route, which reads it    *)
(* once for --help, --version and the name of the command, and the exec    *)
(* method of the command, which reads it again, without those two, for the *)
(* command's options.  What the command then begins to do to the store or  *)
(* to the file is `effect'; BdbEnvironment and ApplyCommand say how.       *)
(*                                                                         *)
(* popt is modelled from how the code uses it: an option takes the next    *)
(* argument whatever it is; reading stops at the first option that is not  *)
(* in the table, or that has no argument.                                  *)
(***************************************************************************)
EXTENDS Integers, Sequences

CONSTANTS CommandLines,  \* the command lines, without argv[0]
          Words,         \* arguments that are no options
          PackageName,   \* the packages: file name -> the name the package declares
          None           \* NULL

Globals == {"--help", "--version"}
Options == {"-h", "-n", "-k", "-v", "-p", "-f"}
Flags   == Options \cup {"-x"}     \* -x is in no table
Names   == {"put", "def", "get", "apply"}
Args    == Globals \cup Flags \cup Words

ASSUME CommandLineAssumption ==
  /\ CommandLines \subseteq Seq(Args)
  /\ Words \cap (Globals \cup Flags) = {} /\ Names \subseteq Words
  /\ DOMAIN PackageName \subseteq Words
  /\ None \notin Args

VARIABLES
  argv,    \* the arguments that are being read
  next,    \* the argument to read next
  pc,      \* "route", "dispatch", "options", "package", "decide", "done"
  help,    \* the router saw --help
  version, \* the router saw --version
  name,    \* the command's name
  rc,      \* how popt ended: "reading", "end", "badopt", "noarg"
  opts,    \* the values of the options
  rpm,     \* the name of the package that was opened
  said,    \* "nothing", "help", "version", "error"
  effect,  \* what was begun
  status,  \* the exit status: "none", "success", "failure", "aborted"
  asked    \* history: the command line

routed  == <<help, version, name>>
results == <<said, effect, status>>
vars    == <<argv, next, pc, help, version, name, rc, opts, rpm, said, effect, status, asked>>

Nothing == [op |-> "nothing"]

Init == /\ asked \in CommandLines
        /\ argv = asked
        /\ next = 1
        /\ pc = "route"
        /\ help = FALSE /\ version = FALSE
        /\ name = None
        /\ rc = "reading"
        /\ opts = [o \in Options |-> None]
        /\ rpm = None
        /\ said = "nothing" /\ effect = Nothing /\ status = "none"

-----------------------------------------------------------------------------
\* The router's reading.
HasNext == next <= Len(argv)
Arg     == argv[next]

RouteGlobal == /\ pc = "route" /\ HasNext /\ Arg \in Globals
               /\ help' = (help \/ Arg = "--help")
               /\ version' = (version \/ Arg = "--version")
               /\ next' = next + 1
               /\ UNCHANGED <<argv, pc, name, rc, opts, rpm, results, asked>>

\* poptGetArg gives the first of these.  The mutant keeps the last.
RouteWordLast == /\ pc = "route" /\ HasNext /\ Arg \in Words
                 /\ name' = Arg
                 /\ next' = next + 1
                 /\ UNCHANGED <<argv, pc, help, version, rc, opts, rpm, results, asked>>

RouteWord == /\ pc = "route" /\ HasNext /\ Arg \in Words
             /\ name' = IF name = None THEN Arg ELSE name
             /\ next' = next + 1
             /\ UNCHANGED <<argv, pc, help, version, rc, opts, rpm, results, asked>>

\* The options of the commands are not in the router's table.
RouteStops == /\ pc = "route"
              /\ HasNext => Arg \in Flags
              /\ rc' = IF HasNext THEN "badopt" ELSE "end"
              /\ pc' = "dispatch"
              /\ UNCHANGED <<argv, next, routed, opts, rpm, results, asked>>

Say(what, how) == /\ said' = what
                  /\ status' = how
                  /\ pc' = "done"
                  /\ UNCHANGED effect

PrintVersion == /\ pc = "dispatch" /\ version
                /\ Say("version", "success")
                /\ UNCHANGED <<argv, next, routed, rc, opts, rpm, asked>>

\* No command, or one that is not bound: the list of them, or popt's error.
NoSuchCommand == /\ pc = "dispatch" /\ ~version /\ name \notin Names
                 /\ Say(IF rc = "end" THEN "help" ELSE "error", "success")
                 /\ UNCHANGED <<argv, next, routed, rc, opts, rpm, asked>>

\* __without_globals: the other arguments, in their order.
WithoutGlobals(line) ==
  LET newargv[k \in 0 .. Len(line)] ==
        IF k = 0 THEN <<>>
        ELSE IF line[k] \in Globals THEN newargv[k - 1] ELSE Append(newargv[k - 1], line[k])
  IN  newargv[Len(line)]

\* __without_globals, then command->exec; with --help it prints and returns.
CommandHelp == /\ pc = "dispatch" /\ ~version /\ name \in Names /\ help
               /\ argv' = WithoutGlobals(argv)
               /\ Say("help", "success")
               /\ UNCHANGED <<next, routed, rc, opts, rpm, asked>>

\* The mutant does not ask whether help is wanted.
ExecIgnoresHelp == /\ pc = "dispatch" /\ ~version /\ name \in Names
                   /\ argv' = WithoutGlobals(argv)
                   /\ next' = 1
                   /\ rc' = "reading"
                   /\ pc' = "options"
                   /\ UNCHANGED <<routed, opts, rpm, results, asked>>

Exec == /\ pc = "dispatch" /\ ~version /\ name \in Names /\ ~help
        /\ argv' = WithoutGlobals(argv)
        /\ next' = 1
        /\ rc' = "reading"
        /\ pc' = "options"
        /\ UNCHANGED <<routed, opts, rpm, results, asked>>

-----------------------------------------------------------------------------
\* The command's reading.
Accepted == CASE name = "get"   -> {"-h", "-n", "-k"}
              [] name = "apply" -> {"-h", "-n", "-p", "-f"}
              [] OTHER          -> {"-h", "-n", "-k", "-v"}

\* An argument that is no option, the command's name among them, is ignored.
SkipWord == /\ pc = "options" /\ HasNext /\ Arg \notin Flags
            /\ next' = next + 1
            /\ UNCHANGED <<argv, pc, routed, rc, opts, rpm, results, asked>>

\* The mutant: the option's argument is read again, as an argument of its own.
TakeOptionTwice == /\ pc = "options" /\ HasNext /\ Arg \in Accepted
                   /\ next < Len(argv)
                   /\ opts' = [opts EXCEPT ![Arg] = argv[next + 1]]
                   /\ next' = next + 1
                   /\ UNCHANGED <<argv, pc, routed, rc, rpm, results, asked>>

TakeOption == /\ pc = "options" /\ HasNext /\ Arg \in Accepted
              /\ next < Len(argv)
              /\ opts' = [opts EXCEPT ![Arg] = argv[next + 1]]
              /\ next' = next + 2
              /\ UNCHANGED <<argv, pc, routed, rc, rpm, results, asked>>

\* -1, POPT_ERROR_NOARG or POPT_ERROR_BADOPT.
ReadingStops == /\ pc = "options"
                /\ HasNext => Arg \in Flags /\ (Arg \in Accepted => next = Len(argv))
                /\ rc' = IF ~HasNext THEN "end"
                         ELSE IF Arg \in Accepted THEN "noarg" ELSE "badopt"
                /\ pc' = IF name = "apply" THEN "package" ELSE "decide"
                /\ UNCHANGED <<argv, next, routed, opts, rpm, results, asked>>

\* apply opens the package before it looks at rc; the constructor may throw.
OpenPackage == /\ pc = "package"
               /\ opts["-p"] # None => opts["-p"] \in DOMAIN PackageName
               /\ rpm' = IF opts["-p"] = None THEN None ELSE PackageName[opts["-p"]]
               /\ pc' = "decide"
               /\ UNCHANGED <<argv, next, routed, rc, opts, results, asked>>

NotAPackage == /\ pc = "package"
               /\ opts["-p"] # None /\ opts["-p"] \notin DOMAIN PackageName
               /\ status' = "aborted"
               /\ pc' = "done"
               /\ UNCHANGED <<argv, next, routed, rc, opts, rpm, said, effect, asked>>

-----------------------------------------------------------------------------
IsGiven(o) == opts[o] # None

\* What put and def require of their options.  The mutant does not call for a value.
ValidWriteWithoutValue == IsGiven("-n") /\ IsGiven("-k")

ValidWrite == IsGiven("-n") /\ IsGiven("-k") /\ IsGiven("-v")

ValidGet == IsGiven("-k") => IsGiven("-n")

ValidApply == /\ IsGiven("-f")
              /\ IsGiven("-n") \/ IsGiven("-p")
              /\ IsGiven("-n") /\ IsGiven("-p") => opts["-n"] = rpm

Valid == CASE name = "get"   -> ValidGet
           [] name = "apply" -> ValidApply
           [] OTHER          -> ValidWrite

\* What the commands then do.  apply does nothing when both -n and -p were given;
\* the mutant does nothing when either was.
WriteWork == [op |-> name, ns |-> opts["-n"], key |-> opts["-k"], val |-> opts["-v"]]

GetWork == IF IsGiven("-k") THEN [op |-> "read", ns |-> opts["-n"], key |-> opts["-k"]]
           ELSE IF IsGiven("-n") THEN [op |-> "list", ns |-> opts["-n"]]
           ELSE [op |-> "spaces"]

ApplyTo(ns) == [op |-> "apply", file |-> opts["-f"], ns |-> ns]

ApplyWorkOrNothing == IF IsGiven("-n") \/ IsGiven("-p") THEN Nothing ELSE ApplyTo(rpm)

ApplyWork == IF IsGiven("-n") /\ IsGiven("-p") THEN Nothing
             ELSE ApplyTo(IF IsGiven("-n") THEN opts["-n"] ELSE rpm)

Work == CASE name = "get"   -> GetWork
          [] name = "apply" -> ApplyWork
          [] OTHER          -> WriteWork

ReportBadOption == /\ pc = "decide" /\ rc # "end"
                   /\ Say("error", "success")
                   /\ UNCHANGED <<argv, next, routed, rc, opts, rpm, asked>>

ReportInvalid == /\ pc = "decide" /\ rc = "end" /\ ~Valid
                 /\ Say("error", "failure")
                 /\ UNCHANGED <<argv, next, routed, rc, opts, rpm, asked>>

\* The mutant works although popt reported an error.
PerformAnyway == /\ pc = "decide" /\ Valid
                 /\ effect' = Work
                 /\ status' \in {"success", "aborted"}
                 /\ pc' = "done"
                 /\ UNCHANGED <<argv, next, routed, rc, opts, rpm, said, asked>>

\* The store or the file may fail: nothing catches the exception.
Perform == /\ pc = "decide" /\ rc = "end" /\ Valid
           /\ effect' = Work
           /\ status' \in IF Work = Nothing THEN {"success"} ELSE {"success", "aborted"}
           /\ pc' = "done"
           /\ UNCHANGED <<argv, next, routed, rc, opts, rpm, said, asked>>

Exited == pc = "done" /\ UNCHANGED vars

Next == \/ RouteGlobal \/ RouteWord \/ RouteStops
        \/ PrintVersion \/ NoSuchCommand \/ CommandHelp \/ Exec
        \/ SkipWord \/ TakeOption \/ ReadingStops
        \/ OpenPackage \/ NotAPackage
        \/ ReportBadOption \/ ReportInvalid \/ Perform
        \/ Exited

Spec == Init /\ [][Next]_vars

-----------------------------------------------------------------------------
(***************************************************************************)
(* Type correctness: no command acts on an option that was not given, and  *)
(* a namespace, a variable or a file is an argument of the command line.   *)
(***************************************************************************)
Given == {asked[i] : i \in 1 .. Len(asked)}

TypeOK ==
  /\ asked \in Seq(Args) /\ argv \in Seq(Args)
  /\ next \in 1 .. Len(asked) + 1
  /\ pc \in {"route", "dispatch", "options", "package", "decide", "done"}
  /\ help \in BOOLEAN /\ version \in BOOLEAN
  /\ name \in Words \cup {None}
  /\ rc \in {"reading", "end", "badopt", "noarg"}
  /\ opts \in [Options -> Given \cup {None}]
  /\ rpm \in {None} \cup {PackageName[w] : w \in DOMAIN PackageName}
  /\ said \in {"nothing", "help", "version", "error"}
  /\ status \in {"none", "success", "failure", "aborted"}
  /\ \/ effect = Nothing \/ effect = [op |-> "spaces"]
     \/ effect.op = "list" /\ effect.ns \in Given
     \/ effect.op = "read" /\ {effect.ns, effect.key} \subseteq Given
     \/ effect.op \in {"put", "def"} /\ {effect.ns, effect.key, effect.val} \subseteq Given
     \/ effect.op = "apply" /\ effect.file \in Given
          /\ effect.ns \in Given \cup {PackageName[w] : w \in DOMAIN PackageName}

(***************************************************************************)
(* The command line as it was typed, without the machinery.  The option at *)
(* position i is one of the command's, and not the argument of another     *)
(* one, when an even number of options stands directly before it.          *)
(***************************************************************************)
RunBefore(line, i) ==
  LET starts == {j \in 1 .. i : \A k \in j .. i - 1 : line[k] \in Flags}
  IN  i - (CHOOSE j \in starts : \A k \in starts : j <= k)

IsOption(line, i) == line[i] \in Flags /\ RunBefore(line, i) % 2 = 0

Positions(line, o) == {i \in 1 .. Len(line) - 1 : line[i] = o /\ IsOption(line, i)}

ValueOf(line, o) ==
  IF Positions(line, o) = {} THEN None
  ELSE line[(CHOOSE i \in Positions(line, o) : \A j \in Positions(line, o) : j <= i) + 1]

\* What stands before the first of the options: all that the router reads.
Front(line) == {i \in 1 .. Len(line) : \A j \in 1 .. i : line[j] \notin Flags}

\* No --help or --version is there for the argument of an option.
GlobalsStandAlone ==
  \A i \in 1 .. Len(asked) : asked[i] \in Globals => RunBefore(asked, i) % 2 = 0

(***************************************************************************)
(* Nothing is put, defined or applied but what the command line says: its  *)
(* first word is the command, each value is the last one typed for its     *)
(* option, and all options were understood; --help and --version, which    *)
(* are taken out of the line in between (__without_globals), may stand     *)
(* anywhere but in the place of an option's argument.                      *)
(***************************************************************************)
DoesWhatWasAsked ==
  effect.op \in {"put", "def", "apply"} /\ GlobalsStandAlone =>
    /\ \E i \in Front(asked) : asked[i] = effect.op /\ \A j \in 1 .. i - 1 : asked[j] \in Globals
    /\ effect.op \in {"put", "def"} =>
         /\ effect.ns  = ValueOf(asked, "-n")
         /\ effect.key = ValueOf(asked, "-k")
         /\ effect.val = ValueOf(asked, "-v")
    /\ effect.op = "apply" =>
         /\ effect.file = ValueOf(asked, "-f")
         /\ ValueOf(asked, "-n") \in {None, effect.ns}
    /\ \A i \in 1 .. Len(asked) : IsOption(asked, i) => asked[i] \in Accepted /\ i < Len(asked)

(***************************************************************************)
(* A command line that asks for help or for the version before the options *)
(* begins nothing else.                                                    *)
(***************************************************************************)
HelpChangesNothing ==
  (\E i \in Front(asked) : asked[i] \in Globals) => effect = Nothing

(***************************************************************************)
(* A command that ends with a status other than 0 by itself, or with an    *)
(* error message, began nothing; and one that began and said nothing and   *)
(* was not aborted was an apply with both -n and -p on the line as it was  *)
(* typed.                                                                  *)
(***************************************************************************)
StatusTellsEffect ==
  /\ status = "failure" => said = "error"
  /\ said = "error" => effect = Nothing
  /\ status = "success" /\ effect = Nothing /\ said = "nothing" =>
       /\ name = "apply"
       /\ GlobalsStandAlone => ValueOf(asked, "-n") # None /\ ValueOf(asked, "-p") # None

(***************************************************************************)
(* "The value to assign to this variable" (put_command.cc and              *)
(* def_command.cc, of -v): what is written is the last value that was      *)
(* typed, whatever it is.                                                  *)
(***************************************************************************)
WritesTheValueTyped ==
  effect.op \in {"put", "def"} => effect.val = ValueOf(asked, "-v")
=============================================================================

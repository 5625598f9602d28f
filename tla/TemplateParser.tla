--------------------------- MODULE TemplateParser ---------------------------
(***************************************************************************)
(* rpmctl::parser<T>::run (parser.hh): reads a template through a bounded  *)
(* buffer and reports text and placeholders to a handler.  One action is   *)
(* one pass through a branch of its loops; a failure of any call made in   *)
(* the try block is Raise (or VariableRefused, when half of the calls of   *)
(* an iteration were made).                                                *)
(***************************************************************************)
EXTENDS TemplateSyntax

CONSTANTS Templates,  \* the files the parser may be run on
          BufSz       \* RPMCTL_MAXBUFSZ

ASSUME TemplatesAssumption == Templates \subseteq Seq(Chars)
ASSUME BufSzAssumption     == BufSz \in Nat \ {0}

VARIABLES
  pc,         \* where run() is
  template,   \* the file's contents
  unread,     \* what u_file_read has not returned yet
  feof,       \* u_feof(*fh)
  txt,        \* the local buffer
  events,     \* the tokens the handler was told of, in order
  releases,   \* how often the handler's data was released
  reported,   \* history: the source text the events stand for
  spans       \* history: <<first, last>> positions of the placeholders reported

input   == <<template, unread, feof>>
history == <<reported, spans>>
vars    == <<pc, template, unread, feof, txt, events, releases, reported, spans>>

TryBlock == {"open", "loop", "scan", "eof"}
Ended    == {"refused", "done", "failed"}

Init == /\ pc = "start"
        /\ template \in Templates
        /\ unread = template
        /\ feof = FALSE
        /\ txt = <<>>
        /\ events = <<>>
        /\ releases = 0
        /\ reported = <<>>
        /\ spans = {}

-----------------------------------------------------------------------------
\* _e.on_start(file), called before the try block: when it throws nobody tells on_error.
Start == /\ pc = "start"
         /\ pc' \in {"open", "refused"}
         /\ UNCHANGED <<input, txt, events, releases, history>>

Open == /\ pc = "open"
        /\ pc' = "loop"
        /\ UNCHANGED <<input, txt, events, releases, history>>

(***************************************************************************)
(* __exread: up to BufSz characters are appended to txt.  A short read is  *)
(* possible; an empty one only at the end of the file.  The end is known   *)
(* with the last characters or only after a further, empty, read.          *)
(***************************************************************************)
Read == /\ pc = "loop"
        /\ ~feof
        /\ \E n \in 0 .. BufSz :
             /\ n <= Len(unread)
             /\ n = 0 => unread = <<>>
             /\ txt' = txt \o SubSeq(unread, 1, n)
             /\ unread' = SubSeq(unread, n + 1, Len(unread))
             /\ feof' \in BOOLEAN
             /\ feof' => unread' = <<>>
             /\ n = 0 => feof'
        /\ pc' = "scan"
        /\ UNCHANGED <<template, events, releases, history>>

(***************************************************************************)
(* u_file_read has no value for an error: when the file cannot be read it  *)
(* returns 0, not the -1 __exread waits for, and u_feof stays false.  The  *)
(* mutant takes it for the end of the file.                                *)
(***************************************************************************)
ReadNothingEnds == /\ pc = "loop"
                   /\ ~feof
                   /\ feof' = TRUE
                   /\ pc' = "scan"
                   /\ UNCHANGED <<template, unread, txt, events, releases, history>>

ReadNothing == /\ pc = "loop"
               /\ ~feof
               /\ pc' = "scan"
               /\ UNCHANGED <<input, txt, events, releases, history>>

\* on_text(s), in a step that leaves the placeholders reported so far alone.
OnText(s) == /\ events' = events \o TextTokens(s)
             /\ reported' = reported \o s
             /\ UNCHANGED spans

\* n == -1: all but the last character, which may be the "$" of a placeholder.
ScanPlainMovesAll ==
  /\ pc = "scan"
  /\ IndexOf(txt, Opener, 0) = -1
  /\ OnText(txt)
  /\ txt' = <<>>
  /\ pc' = "loop"
  /\ UNCHANGED <<input, releases>>

ScanPlain ==
  /\ pc = "scan"
  /\ IndexOf(txt, Opener, 0) = -1
  /\ OnText(Mid(txt, 0, Len(txt) - 1))
  /\ txt' = Remove(txt, Len(txt) - 1)
  /\ pc' = "loop"
  /\ UNCHANGED <<input, releases>>

\* n != -1, m != -1: the text before the placeholder, then the placeholder.
ScanVariableLeavesCloser ==
  /\ pc = "scan"
  /\ LET n == IndexOf(txt, Opener, 0)
         m == IndexOf(txt, Closer, n)
     IN  /\ n # -1 /\ m # -1
         /\ events' = events \o TextTokens(Mid(txt, 0, n))
                             \o <<PlaceholderToken(Mid(txt, n + 2, m - n - 2))>>
         /\ reported' = reported \o Mid(txt, 0, m + 1)
         /\ spans' = spans \cup {<<Len(reported) + n + 1, Len(reported) + m + 1>>}
         /\ txt' = Remove(txt, m)
  /\ UNCHANGED <<pc, input, releases>>

ScanVariable ==
  /\ pc = "scan"
  /\ LET n == IndexOf(txt, Opener, 0)
         m == IndexOf(txt, Closer, n)
     IN  /\ n # -1 /\ m # -1
         /\ events' = events \o TextTokens(Mid(txt, 0, n))
                             \o <<PlaceholderToken(Mid(txt, n + 2, m - n - 2))>>
         /\ reported' = reported \o Mid(txt, 0, m + 1)
         /\ spans' = spans \cup {<<Len(reported) + n + 1, Len(reported) + m + 1>>}
         /\ txt' = Remove(txt, m + 1)
  /\ UNCHANGED <<pc, input, releases>>

\* n != -1, m == -1: the placeholder is not complete yet; wait for more input.
ScanUnclosedRetries ==
  /\ pc = "scan"
  /\ LET n == IndexOf(txt, Opener, 0)
     IN  /\ n # -1
         /\ IndexOf(txt, Closer, n) = -1
         /\ OnText(Mid(txt, 0, n))
         /\ txt' = Remove(txt, n)
  /\ UNCHANGED <<pc, input, releases>>

ScanUnclosed ==
  /\ pc = "scan"
  /\ LET n == IndexOf(txt, Opener, 0)
     IN  /\ n # -1
         /\ IndexOf(txt, Closer, n) = -1
         /\ OnText(Mid(txt, 0, n))
         /\ txt' = Remove(txt, n)
  /\ pc' = "loop"
  /\ UNCHANGED <<input, releases>>

\* After the loop, what is left is text.
FinishText == /\ pc = "loop"
              /\ feof
              /\ OnText(txt)
              /\ pc' = "eof"
              /\ UNCHANGED <<input, txt, releases>>

\* on_eof: a handler that returns from it has released its data.
Finish == /\ pc = "eof"
          /\ pc' = "done"
          /\ releases' = releases + 1
          /\ UNCHANGED <<input, txt, events, history>>

\* The two mutants: no on_error in the catch clause, and an on_error after a release.
RaiseForgetsHandler == /\ pc \in TryBlock
                       /\ pc' = "failed"
                       /\ UNCHANGED <<input, txt, events, releases, history>>

RaiseAfterFinish == /\ pc \in TryBlock \cup {"done"}
                    /\ pc' = "failed"
                    /\ releases' = releases + 1
                    /\ UNCHANGED <<input, txt, events, history>>

\* A call of the try block throws: on_error, then the exception goes on.
Raise == /\ pc \in TryBlock
         /\ pc' = "failed"
         /\ releases' = releases + 1
         /\ UNCHANGED <<input, txt, events, history>>

\* on_text accepts the text before a placeholder and the placeholder's event throws.
VariableRefused ==
  /\ pc = "scan"
  /\ LET n == IndexOf(txt, Opener, 0)
     IN  /\ n # -1
         /\ IndexOf(txt, Closer, n) # -1
         /\ OnText(Mid(txt, 0, n))
  /\ pc' = "failed"
  /\ releases' = releases + 1
  /\ UNCHANGED <<input, txt>>

Terminated == pc \in Ended /\ UNCHANGED vars

Progress == \/ Start \/ Open \/ Read \/ ReadNothing
            \/ ScanPlain \/ ScanVariable \/ ScanUnclosed
            \/ FinishText \/ Finish

Next == Progress \/ Raise \/ VariableRefused \/ Terminated

\* run() goes on by itself, and need not fail.
Spec == Init /\ [][Next]_vars /\ WF_vars(Progress)

-----------------------------------------------------------------------------
Tuples == Nat \X Nat

(***************************************************************************)
(* Type correctness.  The handler's data is released at most once: no path *)
(* through the catch clause releases it behind an on_eof that returned.    *)
(***************************************************************************)
TypeOK == /\ pc \in {"start"} \cup TryBlock \cup Ended
          /\ template \in Templates
          /\ unread \in Seq(Chars)
          /\ feof \in BOOLEAN
          /\ txt \in Seq(Chars)
          /\ reported \in Seq(Chars)
          /\ spans \subseteq Tuples
          /\ releases \in 0 .. 1

\* What was read and not reported yet: the buffer, until the final on_text.
Pending == IF pc \in {"eof", "done"} THEN <<>> ELSE txt

(***************************************************************************)
(* No character of the template is dropped, repeated or moved while it     *)
(* passes through the buffer: what was reported, what is held and what is  *)
(* unread always make up the file.  (A failed iteration holds nothing.)    *)
(***************************************************************************)
Lossless == pc # "failed" => template = reported \o Pending \o unread

(***************************************************************************)
(* A complete placeholder is never reported as text, wherever the reads    *)
(* cut it: an opener among the reported characters that has a closer in    *)
(* the file lies inside a placeholder that was reported as one.            *)
(***************************************************************************)
NoPlaceholderLeaks ==
  \A i \in 1 .. Len(template) :
     (i <= Len(reported) /\ OpensAt(template, i) /\ ClosersAfter(template, i) # {})
       => \E sp \in spans : sp[1] <= i /\ i <= sp[2]

(***************************************************************************)
(* When run() is over the handler has released its data exactly once, or   *)
(* on_start never made any.                                                *)
(***************************************************************************)
HandlerReleased == /\ pc \in {"done", "failed"} => releases = 1
                   /\ pc \notin {"done", "failed"} => releases = 0

(***************************************************************************)
(* The buffered parser implements the token stream: its events are the     *)
(* reference tokens of the whole file, in order, and on_eof comes after    *)
(* the last of them.                                                       *)
(***************************************************************************)
Stream == INSTANCE TokenStream WITH
            delivered <- events,
            outcome   <- CASE pc = "done" -> "done"
                           [] pc \in {"failed", "refused"} -> "failed"
                           [] OTHER -> "running"

StreamSpec == Stream!Spec

(***************************************************************************)
(* run() terminates on every file, for every way the reads split it and    *)
(* however often reading fails, as long as it does not fail for ever.      *)
(***************************************************************************)
EndsOnceReadable == <>[][~ReadNothing]_vars => <>(pc \in Ended)

(***************************************************************************)
(* on_eof "is invoked when the parser finishes reading the file            *)
(* successfully", on_error "if there was any error instead of on_eof"      *)
(* (parser.hh): once on_start has accepted the file one of them comes.     *)
(***************************************************************************)
EofOrError == <>(pc = "refused" \/ releases = 1)
=============================================================================

----------------------------- MODULE FileLookup -----------------------------
(***************************************************************************)
(* What a report may expect of the search for a data file, without caches  *)
(* and directories: files come and go while it searches, and it is given a *)
(* file of the minute it asked for, or the answer that there is none.      *)
(***************************************************************************)
EXTENDS Naturals

CONSTANTS
  Files,      \* all files there may be
  Points,     \* the minutes that may be asked for
  MinuteOf,   \* the minute of each file
  NoFile      \* the negative answer

VARIABLES
  files,      \* the files that exist
  ever,       \* the files that have existed since the report began
  query,      \* the minute asked for
  excused,    \* the negative answer would be true of some moment of this search
  answer      \* {} while searching, else the set of the one answer

vars == <<files, ever, query, excused, answer>>

Of(S, m) == {f \in S : MinuteOf[f] = m}

Init ==
  /\ files \in SUBSET Files
  /\ ever = files
  /\ query \in Points
  /\ excused = (Of(files, query) = {})
  /\ answer = {NoFile}

(* Files are written and removed at any time.  A minute that has no file, or *)
(* loses one, excuses the negative answer.                                   *)
Change ==
  /\ files' \in SUBSET Files
  /\ ever' = ever \cup files'
  /\ excused' = \/ excused
                \/ Of(files', query) = {}
                \/ Of(files \ files', query) # {}
  /\ UNCHANGED <<query, answer>>

(* A search begins.                                                          *)
Ask ==
  /\ query' \in Points
  /\ answer' = {}
  /\ excused' = (Of(files, query') = {})
  /\ UNCHANGED <<files, ever>>

Answer ==
  /\ answer = {}
  /\ \/ excused /\ answer' = {NoFile}
     \/ \E f \in Of(ever, query) : answer' = {f}
  /\ UNCHANGED <<files, ever, query, excused>>

Next == Change \/ Ask \/ Answer

Spec == Init /\ [][Next]_vars
=============================================================================

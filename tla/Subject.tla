------------------------------- MODULE Subject -------------------------------
(***************************************************************************)
(* Subjects and the patterns of subscriptions (subject.c, and the same     *)
(* code in server.c for GraphQL).  A subject is the sequence of its parts  *)
(* between the dots.                                                       *)
(***************************************************************************)
EXTENDS Naturals, Sequences

\* agoo_subject_check.  A "*" runs to the next dot, and the step over the dot
\* leaves the pattern on its own dot: only a "*" that meets the last part of
\* the subject matches, whatever comes after it in the pattern.  One that
\* meets an earlier part does not match.
RECURSIVE SubjectCheck(_, _)
SubjectCheck(pattern, subject) ==
    CASE pattern = <<>> \/ subject = <<>> -> pattern = subject
      [] Head(pattern) = Head(subject) ->
           SubjectCheck(Tail(pattern), Tail(subject))
      [] Head(pattern) = "*" -> Len(subject) = 1
      [] OTHER -> Head(pattern) = ">"

\* What the documentation of subscribe says of patterns: "*" stands for one
\* part, ">" for all that is left.
RECURSIVE Matches(_, _)
Matches(pattern, subject) ==
    CASE pattern = <<>> \/ subject = <<>> -> pattern = subject
      [] Head(pattern) \in {"*", Head(subject)} ->
           Matches(Tail(pattern), Tail(subject))
      [] OTHER -> Head(pattern) = ">"
=============================================================================

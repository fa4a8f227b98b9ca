---------------------------- MODULE MCTimedWords ----------------------------
(* TimedWords for words that contain the mask character themselves.        *)
EXTENDS TimedWords

MCCharacters == {"a", "_"}

=============================================================================

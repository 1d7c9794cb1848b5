---------------------------- MODULE MCRegexpGlobals ----------------------------
(* Regexps with no group, with one and with two, two matches in a string   *)
(* (so that a scan has a next one), and blocks in blocks.                  *)
EXTENDS RegexpGlobals

CONSTANTS bare, pair, look

OneAndTwo == [r \in Regexps |-> IF r = bare THEN 0 ELSE IF r = pair THEN 2 ELSE 1]

=============================================================================

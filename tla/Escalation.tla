----------------------------- MODULE Escalation -----------------------------
(***************************************************************************)
(* The escalation ladder (internal/escalation) as the handlers use it: a    *)
(* target that is banned again while it is still observed climbs one level, *)
(* and the sentence of a request is read off its level.                     *)
(***************************************************************************)
EXTENDS Integers, Sequences

CONSTANT Ladder   \* the TTL of each level; 0 is permanent

ASSUME EscalationAssumption == Ladder \in Seq(Nat) /\ Len(Ladder) > 0

TopLevel == Len(Ladder) - 1

Levels == 0..TopLevel

LadderRows == [present : BOOLEAN, level : Levels, offenses : Nat, observing : BOOLEAN]

NoRow == [present |-> FALSE, level |-> 0, offenses |-> 0, observing |-> FALSE]

LevelTTL(level) == Ladder[level + 1]

\* Handler.nextTTL: the TTL a request created now will carry.
NextTTL(row) ==
  IF row.observing /\ row.level < TopLevel
  THEN LevelTTL(row.level + 1) ELSE LevelTTL(row.level)

\* A fault: a first offence decays the level, and nothing stops it at zero.
DecayOnRegister(row) ==
  LET level == IF row.observing THEN row.level + 1 ELSE row.level - 1 IN
  [present |-> TRUE, level |-> level, offenses |-> row.offenses + 1, observing |-> TRUE]

\* Penalty.RegisterBan.  A permanent ban is not observed afterwards.
RegisterBan(row) ==
  LET level == IF ~row.observing THEN row.level
               ELSE IF row.level + 1 > TopLevel THEN TopLevel ELSE row.level + 1 IN
  [present |-> TRUE, level |-> level, offenses |-> row.offenses + 1,
   observing |-> LevelTTL(level) > 0]

=============================================================================

------------------------------- MODULE MCTurn -------------------------------
EXTENDS Turn

\* A reply with a reminder and a proposal; a dropped proposal and nothing else; a
\* publication without a word; nothing at all.
SomeCompletions ==
  {[reply |-> TRUE, note |-> "reminder", question |-> "remember"],
   [reply |-> FALSE, note |-> "onlyOne", question |-> "none"],
   [reply |-> FALSE, note |-> "none", question |-> "publish"],
   [reply |-> FALSE, note |-> "none", question |-> "none"]}
=============================================================================

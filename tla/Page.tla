-------------------------------- MODULE Page --------------------------------
\* What the header and the terminology page of a tab share (Header, Terminology).
CONSTANTS
  People, Managers,  \* the users, and the administrators among them
  None

Known(S) == S \cup {None}
\* A record of the rows that are shown, by id: none.
Nothing == [x \in {} |-> None]
=============================================================================

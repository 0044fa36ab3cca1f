------------------------------ MODULE ChangeFeed ------------------------------
(***************************************************************************)
(* What the parameter daemon and central promise of changes to those who   *)
(* hear of them, without central's slots and without what a module does    *)
(* with a change.  A change is put behind the others in the lines of all   *)
(* hearers at once, with the value that was stored, and a hearer handles   *)
(* its line in order.  At most Limit wait next to the one being handled;   *)
(* one more drives out the oldest that waits.  ParamFeed shows that        *)
(* ParamServer implements this.                                            *)
(***************************************************************************)
EXTENDS Naturals, Sequences

CONSTANTS Hearers, Names, Title, Contents, Unknown, Limit   \* Title: a name as it is told

VARIABLES
  stored,    \* what is known of each name
  hearing,   \* who is told of changes
  line       \* the changes on their way to each, the one that is handled first

feedVars == <<stored, hearing, line>>

Tables == [Names -> Contents \cup {Unknown}]

FeedInit ==
  /\ stored \in Tables
  /\ hearing = {}
  /\ line = [c \in Hearers |-> <<>>]

\* The first change of a line is being handled: it is not driven out.
Longer(s, msg) ==
  Append(IF Len(s) > Limit THEN <<s[1]>> \o SubSeq(s, 3, Len(s)) ELSE s, msg)

Store(p, v) ==
  /\ stored' = [stored EXCEPT ![p] = v]
  /\ line' = [c \in Hearers |->
                IF c \in hearing
                  THEN Longer(line[c], [name |-> "change", param |-> Title[p], value |-> v])
                  ELSE line[c]]
  /\ UNCHANGED hearing

\* What is known is read again; nobody is told.
Reload ==
  /\ stored' \in Tables
  /\ UNCHANGED <<hearing, line>>

\* Who begins to hear begins with an empty line.
Hear(c) ==
  /\ c \notin hearing
  /\ line[c] = <<>>
  /\ hearing' = hearing \cup {c}
  /\ UNCHANGED <<stored, line>>

Handle(c) ==
  /\ line[c] # <<>>
  /\ line' = [line EXCEPT ![c] = Tail(@)]
  /\ UNCHANGED <<stored, hearing>>

Leave(c) ==
  /\ c \in hearing
  /\ hearing' = hearing \ {c}
  /\ line' = [line EXCEPT ![c] = <<>>]
  /\ UNCHANGED stored

FeedNext ==
  \/ \E p \in Names, v \in Contents : Store(p, v)
  \/ Reload
  \/ \E c \in Hearers : Hear(c) \/ Handle(c) \/ Leave(c)

FeedSpec == FeedInit /\ [][FeedNext]_feedVars
=============================================================================

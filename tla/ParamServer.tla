----------------------------- MODULE ParamServer -----------------------------
(***************************************************************************)
(* Parameters: the table of param_daemon and the copies the modules keep in  *)
(* variables of their own (src/src/param_daemon).                            *)
(*                                                                          *)
(* A module asks for its parameters one by one as it starts                  *)
(* (carmen_param_install_params).  From the first one it subscribes to, it   *)
(* hears of every change the daemon publishes, for any parameter, through    *)
(* central's queue, where all changes are messages of one name; the answers  *)
(* to its own queries do not pass through that queue.  A module that waits   *)
(* for an answer goes on handling changes.                                   *)
(*                                                                          *)
(* A parameter has one full name, which the daemon looks up whatever its     *)
(* case, but a module names it by two words, module and variable, which must *)
(* be those of a change to the letter.  The daemon puts into a change what   *)
(* is before and what is after the first underscore: of the parameters that  *)
(* navigator_panel calls its own, whose changes come from "navigator", the   *)
(* module never applies one.                                                 *)
(*                                                                          *)
(* What a module does with a change of a parameter that it follows, in its   *)
(* own handler, is not modelled, nor are the daemon's other queries.         *)
(***************************************************************************)
EXTENDS IpcCentral

CONSTANTS
  Clients,       \* modules
  Params,        \* full names of parameters, without regard to case
  Names,         \* pairs of a module and a variable, as they are written
  Joined,        \* for each pair, the full name it makes
  Split,         \* for each parameter, the pair the daemon made of its full name
  Values,        \* what may be written as a value
  Convertible,   \* for each pair, the values that its type admits
  Wanted         \* for each module, the list it hands to install_params

Absent == "absent"   \* the daemon has no such parameter
Unset == "unset"     \* what a module's variable holds before anything is put there
NoReply == "none"

ASSUME ParamAssumption ==
  /\ Absent \notin Values /\ Unset \notin Values /\ NoReply \notin Values
  /\ Joined \in [Names -> Params] /\ Split \in [Params -> Names]
  /\ \A p \in Params : Joined[Split[p]] = p
  /\ Convertible \in [Names -> SUBSET Values]
  /\ Wanted \in [Clients -> Seq([param : Names, subscribe : BOOLEAN])]

VARIABLES
  value,      \* param_list of the daemon, of the last one when it is down
  daemonUp,
  client      \* the state of each module

vars == <<value, daemonUp, client>>

Change(p, v) == [name |-> "change", param |-> p, value |-> v]

ChangeMessage == [name : {"change"}, param : Names, value : Values]

Copies == [Names -> Values \cup {Unset}]

ClientState ==
  [place : Nat, reply : Values \cup {NoReply}, copy : Copies, later : Copies,
   known : SUBSET Names, followed : SUBSET Names, heard : BOOLEAN,
   queue : [attending : ChangeMessage \cup {Nobody}, pending : Seq(ChangeMessage)],
   told : SUBSET Names]

\* A module that is not running.
Down ==
  [place |-> 0,                \* the entry of its list it is at; 0 if it is down
   reply |-> NoReply,          \* the daemon's answer about that entry
   copy |-> [n \in Names |-> Unset],    \* the variables of installed_parameters, by
                                        \*   name: that of the name's first entry,
   later |-> [n \in Names |-> Unset],   \*   which is the one that is ever found, and
                                        \*   that of an entry of the same name after it
   known |-> {},               \* the names in installed_parameters
   followed |-> {},            \* those whose first entry has subscribe set
   heard |-> FALSE,            \* it has subscribed to the changes
   queue |-> IdleQueue,        \* central's queue of changes for it
   told |-> {}]                \* history: the names under which the present value was
                               \*   the last word to it, and not lost or passed over

ClientOK(c, cl) ==
  /\ cl \in ClientState
  /\ cl.place <= Len(Wanted[c]) + 1
  /\ cl.reply # NoReply => cl.place \in DOMAIN Wanted[c]
  /\ cl.followed \subseteq cl.known
  /\ WaitsOnlyBehind(cl.queue) /\ WithinLimit(cl.queue)

TypeOK ==
  /\ value \in [Params -> Values \cup {Absent}]
  /\ daemonUp \in BOOLEAN
  /\ client \in [Clients -> ClientState]
  /\ \A c \in Clients : ClientOK(c, client[c])

-----------------------------------------------------------------------------
(* The changes on their way to a module. *)

Waits(queue) == {queue.pending[i].param : i \in DOMAIN queue.pending}

Underway(queue) ==
  Waits(queue) \cup {msg.param : msg \in {queue.attending} \ {Nobody}}

\* Central takes a change for the module, if it has subscribed.  At the limit the
\* oldest that waits is lost, of whatever parameter it is, and with it the last
\* word of that parameter unless another one waits.  Of the names of the parameter
\* only the one in the change is told of it.
Publish(cl, msg) ==
  LET new == Arrive(cl.queue, msg)
      lost == Waits(cl.queue) \ Waits(new)
      namesakes == {n \in Names : Joined[n] = Joined[msg.param]} IN
  IF cl.heard
    THEN [cl EXCEPT !.queue = new, !.told = (@ \ (lost \cup namesakes)) \cup {msg.param}]
    ELSE [cl EXCEPT !.told = @ \ namesakes]

-----------------------------------------------------------------------------
(* The daemon. *)

\* What publish_new_param tells of the value that was stored, under the module and
\* the variable set_param made of the full name when it first met it.
Published_Before(p, v) == Change(Split[p], IF value[p] = Absent THEN v ELSE value[p])
Published(p, v) == Change(Split[p], v)

\* set_param, which serves a request to set a parameter and each line of the file
\* that is read again.
SetParam(p, v) ==
  /\ daemonUp
  /\ value' = [value EXCEPT ![p] = v]
  /\ client' = [c \in Clients |-> Publish(client[c], Published(p, v))]
  /\ UNCHANGED daemonUp

DaemonEnds ==
  /\ daemonUp
  /\ daemonUp' = FALSE
  /\ UNCHANGED <<value, client>>

\* The new one reads the file before it is connected: what changed since is
\* published to nobody.
DaemonStarts ==
  /\ ~daemonUp
  /\ daemonUp' = TRUE
  /\ value' \in [Params -> Values \cup {Absent}]
  /\ client' = [c \in Clients |->
                  [client[c] EXCEPT !.told = {n \in @ : value'[Joined[n]] = value[Joined[n]]}]]

-----------------------------------------------------------------------------
(* A module. *)

Becomes(c, cl) ==
  /\ client' = [client EXCEPT ![c] = cl]
  /\ UNCHANGED <<value, daemonUp>>

Asking(c) ==
  /\ client[c].place \in DOMAIN Wanted[c]
  /\ client[c].reply = NoReply

ClientStarts(c) ==
  /\ client[c].place = 0
  /\ Becomes(c, [client[c] EXCEPT !.place = 1])

\* By itself or because a query timed out.
ClientEnds(c) ==
  /\ client[c].place # 0
  /\ Becomes(c, Down)

\* The daemon answers a query.  Changes of the parameter that are still on their
\* way are handled after the answer, although they are older.
Answer(c) ==
  LET cl == client[c]
      n == Wanted[c][cl.place].param IN
  /\ daemonUp
  /\ Asking(c)
  /\ value[Joined[n]] # Absent
  /\ Becomes(c, [cl EXCEPT !.reply = value[Joined[n]],
                            !.told = IF n \in cl.known \cup Underway(cl.queue)
                                       THEN @ ELSE @ \cup {n}])

\* Without the parameter the module cannot start.
AnswerNotFound(c) ==
  /\ daemonUp
  /\ Asking(c)
  /\ value[Joined[Wanted[c][client[c].place].param]] = Absent
  /\ Becomes(c, Down)

Converted(n, v, old) == IF v \in Convertible[n] THEN v ELSE old

\* install_parameter; wanted is an entry of the module's list.  It is put behind the
\* others, so get_table_entry never finds it if there is one of its name.
Installed(cl, wanted) ==
  [cl EXCEPT !.known = @ \cup {wanted.param},
             !.followed = IF wanted.subscribe /\ wanted.param \notin cl.known
                            THEN @ \cup {wanted.param} ELSE @,
             !.heard = @ \/ wanted.subscribe]

\* The variable of an entry that is installed for n takes v.
Stored(cl, n, v) ==
  IF n \in cl.known
    THEN [cl EXCEPT !.later[n] = Converted(n, v, @)]
    ELSE [cl EXCEPT !.copy[n] = Converted(n, v, @)]

\* The module takes the answer; a value of another type leaves its variable.
Install(c) ==
  LET cl == client[c]
      wanted == Wanted[c][cl.place] IN
  /\ cl.reply # NoReply
  /\ Becomes(c, [Installed(Stored(cl, wanted.param, cl.reply), wanted)
                   EXCEPT !.place = @ + 1, !.reply = NoReply])

\* A value on the module's command line stands in for the answer.
InstallFromCommandLine(c) ==
  LET cl == client[c]
      wanted == Wanted[c][cl.place]
      n == wanted.param IN
  /\ Asking(c)
  /\ \E v \in Convertible[n] :
       Becomes(c, [Installed(Stored(cl, n, v), wanted)
                     EXCEPT !.place = @ + 1,
                            !.told = IF n \in cl.known THEN @ ELSE @ \ {n}])

\* carmen_param_subscribe_*, called by a module that has started.  It sets subscribe
\* of the first entry; what the module has not installed is not asked for.
Subscribe(c, n) ==
  LET cl == client[c] IN
  /\ cl.place = Len(Wanted[c]) + 1
  /\ Becomes(c, [cl EXCEPT !.known = @ \cup {n}, !.followed = @ \cup {n}, !.heard = TRUE,
                            !.told = IF n \in cl.known THEN @ ELSE @ \ {n}])

\* What the module has of a name, the answer on its way included.
Has(c, n) ==
  LET cl == client[c] IN
  IF cl.reply # NoReply /\ Wanted[c][cl.place].param = n /\ n \notin cl.known
    THEN cl.reply ELSE cl.copy[n]

\* change_handler.  A change that is passed over may be the only word of a value
\* the module does not have.
HandleChange(c) ==
  LET cl == client[c]
      n == cl.queue.attending.param
      v == cl.queue.attending.value
      after == Finish(cl.queue) IN
  /\ cl.queue.attending # Nobody
  /\ IF n \in cl.followed
       THEN Becomes(c, [cl EXCEPT !.queue = after,
                                  !.copy[n] = Converted(n, v, @)])
       ELSE Becomes(c, [cl EXCEPT !.queue = after,
                                  !.told = IF n \in Underway(after) \/ Has(c, n) = v
                                             THEN @ ELSE @ \ {n}])

-----------------------------------------------------------------------------

Init ==
  /\ value \in [Params -> Values \cup {Absent}]
  /\ daemonUp = TRUE
  /\ client = [c \in Clients |-> Down]

ClientStep(c) ==
  \/ ClientStarts(c)
  \/ ClientEnds(c)
  \/ Answer(c)
  \/ AnswerNotFound(c)
  \/ Install(c)
  \/ InstallFromCommandLine(c)
  \/ \E n \in Names : Subscribe(c, n)
  \/ HandleChange(c)

Next ==
  \/ \E p \in Params, v \in Values : SetParam(p, v)
  \/ DaemonEnds
  \/ DaemonStarts
  \/ \E c \in Clients : ClientStep(c)

Spec == Init /\ [][Next]_vars

\* A module that runs goes back to its dispatcher.
FairSpec == Spec /\ \A c \in Clients : WF_vars(HandleChange(c))

-----------------------------------------------------------------------------
(* Properties. *)

\* The module follows the name, was told of its parameter's value and can use it.
Follows(c, n) ==
  /\ n \in client[c].followed
  /\ n \in client[c].told
  /\ value[Joined[n]] \in Convertible[n]

\* Whatever changes central dropped or the module heard before it was ready for
\* them, and although an answer gets ahead of older changes in central's queue: a
\* module that has handled all changes has the daemon's value, of each parameter
\* of whose value it was told at all, in the variable of the first entry.  It says
\* nothing of a second entry of a name, which keeps what it was installed with, and
\* of a name other than the one in the changes it says only that what the module was
\* told at its start holds until the parameter is set: from then on it is told no more.
CopiesCurrent ==
  \A c \in Clients, n \in Names :
    Follows(c, n) /\ n \notin Underway(client[c].queue)
      => client[c].copy[n] = value[Joined[n]]

\* And it comes to that once parameters are no longer set, while modules and daemons
\* come and go: the module uses the value, or that word of it is no longer good.
\* (Parameters that are set for ever can keep a change from ever being handled:
\* each new one takes the last place of the queue and drops the one before.)
SetsSomething == \E p \in Params, v \in Values : SetParam(p, v)

CatchesUp ==
  <>[][~SetsSomething]_vars =>
    \A c \in Clients, n \in Names :
      Follows(c, n) ~> client[c].copy[n] = value[Joined[n]] \/ ~Follows(c, n)
=============================================================================

---------------------------- MODULE DiscordPanel ----------------------------
(***************************************************************************)
(* The panel of the Discord bot and the operations behind its buttons.     *)
(* Every gateway session ends with on_ready, which edits the panel it      *)
(* knows or posts one and saves its identifier.  An operation of a member  *)
(* passes the access gate, calls the site and leaves the gate in a finally *)
(* block.  The bot may be killed anywhere.  What the calls do on the site  *)
(* is in Provisioning and Accounts.                                        *)
(***************************************************************************)
EXTENDS Naturals, FiniteSets

CONSTANTS
  Member, Op,
  Places,       \* operations at once, 20 in the code
  Event,        \* on_ready handlers that may overlap
  MaxPosts,     \* panels posted: a bound on the instance
  MaxKills      \* kills of the bot: a bound on the instance

VARIABLES
  active,     \* AccessGate.active
  cooling,    \* members in AccessGate.cooldown
  op,         \* [Op -> the operation: at, member, kind, entered]
  event,      \* [Event -> the on_ready handler: at, known]
  shown,      \* panels in the channel
  saved,      \* panel.json: a panel, or 0
  posts, kills

vars == <<active, cooling, op, event, shown, saved, posts, kills>>
gate == <<active, cooling, op>>
panel == <<event, shown, saved, posts>>

Idle == [at |-> "idle", member |-> CHOOSE m \in Member : TRUE, kind |-> "status", entered |-> FALSE]
Off == [at |-> "off", known |-> 0]

Init ==
  /\ active = {} /\ cooling = {} /\ op = [o \in Op |-> Idle]
  /\ event = [e \in Event |-> Off] /\ shown = {} /\ saved = 0 /\ posts = 0 /\ kills = 0

-----------------------------------------------------------------------------
(* The operations of members *)

Kind == {"register", "status"}

\* interaction_check and defer: a button of the panel, or of the list under it, was pressed.
Press(o, m, k) ==
  /\ op[o] = Idle
  /\ op' = [op EXCEPT ![o] = [at |-> "deferred", member |-> m, kind |-> k, entered |-> FALSE]]
  /\ UNCHANGED <<active, cooling, kills>> /\ UNCHANGED panel

Admitted(m) == m \notin active /\ m \notin cooling /\ Cardinality(active) < Places

Enter(o) ==
  /\ op[o].at = "deferred"
  /\ LET ok == Admitted(op[o].member)
     IN /\ active' = IF ok THEN active \cup {op[o].member} ELSE active
        /\ op' = [op EXCEPT ![o].at = IF ok THEN "inside" ELSE "leaving", ![o].entered = ok]
  /\ UNCHANGED <<cooling, kills>> /\ UNCHANGED panel

\* The operation calls the site and answers the member, or any of it fails: either way it
\* comes to the finally block.
Work(o) ==
  /\ op[o].at = "inside"
  /\ op' = [op EXCEPT ![o].at = "leaving"]
  /\ UNCHANGED <<active, cooling, kills>> /\ UNCHANGED panel

\* Mutated form: the finally block leaves the gate for an operation that was refused too.
LeavesAlways(o) == TRUE

Leaves(o) == op[o].entered

Leave(o) ==
  /\ op[o].at = "leaving"
  /\ active' = IF Leaves(o) THEN active \ {op[o].member} ELSE active
  /\ cooling' = IF Leaves(o) /\ op[o].kind = "register" THEN cooling \cup {op[o].member} ELSE cooling
  /\ op' = [op EXCEPT ![o] = Idle]
  /\ UNCHANGED kills /\ UNCHANGED panel

CoolDown(m) ==
  /\ m \in cooling /\ cooling' = cooling \ {m}
  /\ UNCHANGED <<active, op, kills>> /\ UNCHANGED panel

-----------------------------------------------------------------------------
(* The panel *)

Ready(e) ==
  /\ event[e] = Off
  /\ event' = [event EXCEPT ![e].at = "waiting"]
  /\ UNCHANGED <<shown, saved, posts, kills>> /\ UNCHANGED gate

\* Mutated form: the handlers do not wait for each other.
PanelFreeAlways == TRUE

PanelFree == \A e \in Event : event[e].at \in {"off", "waiting"}

Lock(e) ==
  /\ event[e].at = "waiting" /\ PanelFree
  /\ event' = [event EXCEPT ![e] = [at |-> "edit", known |-> saved]]
  /\ UNCHANGED <<shown, saved, posts, kills>> /\ UNCHANGED gate

\* The known panel is edited; when it is gone, or none is known, one is posted.
Edit(e) ==
  /\ event[e].at = "edit"
  /\ event' = [event EXCEPT ![e] = IF @.known \in shown THEN Off ELSE [@ EXCEPT !.at = "post"]]
  /\ UNCHANGED <<shown, saved, posts, kills>> /\ UNCHANGED gate

Post(e) ==
  /\ event[e].at = "post" /\ posts < MaxPosts
  /\ posts' = posts + 1 /\ shown' = shown \cup {posts'}
  /\ event' = [event EXCEPT ![e] = [at |-> "save", known |-> posts']]
  /\ UNCHANGED <<saved, kills>> /\ UNCHANGED gate

\* save_panel: a temporary file takes the place of panel.json.
Save(e) ==
  /\ event[e].at = "save"
  /\ saved' = event[e].known /\ event' = [event EXCEPT ![e] = Off]
  /\ UNCHANGED <<shown, posts, kills>> /\ UNCHANGED gate

\* A call to Discord fails, and the bot closes; a kill does the same.
Kill ==
  /\ kills < MaxKills /\ kills' = kills + 1
  /\ active' = {} /\ cooling' = {} /\ op' = [o \in Op |-> Idle]
  /\ event' = [e \in Event |-> Off]
  /\ UNCHANGED <<shown, saved, posts>>

\* A moderator deletes a panel.
Remove(p) ==
  /\ p \in shown /\ shown' = shown \ {p}
  /\ UNCHANGED <<event, saved, posts, kills>> /\ UNCHANGED gate

Next ==
  \/ \E o \in Op, m \in Member, k \in Kind : Press(o, m, k)
  \/ \E o \in Op : Enter(o) \/ Work(o) \/ Leave(o)
  \/ \E m \in Member : CoolDown(m)
  \/ \E e \in Event : Ready(e) \/ Lock(e) \/ Edit(e) \/ Post(e) \/ Save(e)
  \/ Kill
  \/ \E p \in 1..MaxPosts : Remove(p)

Spec == Init /\ [][Next]_vars

-----------------------------------------------------------------------------
(* Properties *)

TypeOK ==
  /\ active \subseteq Member /\ cooling \subseteq Member
  /\ op \in [Op -> [at : {"idle", "deferred", "inside", "leaving"},
                    member : Member, kind : Kind, entered : BOOLEAN]]
  /\ event \in [Event -> [at : {"off", "waiting", "edit", "post", "save"}, known : 0..MaxPosts]]
  /\ shown \subseteq 1..MaxPosts /\ saved \in 0..MaxPosts
  /\ posts \in 0..MaxPosts /\ kills \in 0..MaxKills

Inside(o) == op[o].entered

\* A member has one operation under way at a time, and the gate knows exactly these: a
\* refused second click neither frees the first one nor leaves anything behind
\* (AccessGate.enter and leave, execute's finally block).
GateExact ==
  /\ \A m \in Member : Cardinality({o \in Op : Inside(o) /\ op[o].member = m}) <= 1
  /\ active = {op[o].member : o \in {q \in Op : Inside(q)}}

\* The channel shows one panel the bot knows, and at most one more for every kill between
\* posting a panel and saving it (on_ready, save_panel).
PanelKnown ==
  Cardinality(shown \ ({saved} \cup {event[e].known : e \in Event})) <= kills

=============================================================================

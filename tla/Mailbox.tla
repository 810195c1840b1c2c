-------------------------------- MODULE Mailbox --------------------------------
(***************************************************************************)
(* What the store of direct messages promises its user, without keys,      *)
(* peers' rows, retries, caches, closures or restarts.  Mail that cannot   *)
(* be read yet appears together with the badge of its conversation.  Mail  *)
(* of others is shown in clear only when it is addressed to the user and   *)
(* was announced before.  Nothing that is stored is lost or unread again,  *)
(* and only opening a conversation takes its badge away.                   *)
(***************************************************************************)
CONSTANTS Me, Peer, Mail, From, To

VARIABLES
    status,  \* status[m]: what the user sees of message m, or "absent"
    read,    \* the messages that the user has read
    badge,   \* the conversations that are shown as unread
    noticed  \* the messages announced by a badge and about to be shown

vars == <<status, read, badge, noticed>>

Conv(m) == {From[m], To[m]}

Present == {m \in Mail : status[m] # "absent"}

Show(m, s) == status' = [status EXCEPT ![m] = s]

Init ==
    /\ status = [m \in Mail |-> "absent"]
    /\ read = {}
    /\ badge = {}
    /\ noticed = {}

\* A message of the user's own is in clear at once, and nobody is alerted.
Send(m) ==
    /\ From[m] = Me
    /\ m \notin Present
    /\ Show(m, "decrypted")
    /\ UNCHANGED <<read, badge, noticed>>

Notice(m) ==
    /\ To[m] = Me
    /\ badge' = badge \union {Conv(m)}
    /\ noticed' = noticed \union {m}
    /\ UNCHANGED <<status, read>>

\* It may have been shown before: a retry finds it readable now.
Reveal(m) ==
    /\ m \in noticed
    /\ Show(m, "decrypted")
    /\ noticed' \in {noticed, noticed \ {m}}
    /\ UNCHANGED <<read, badge>>

\* Mail that cannot be read yet, and mail that is not for us either.
Conceal(m) ==
    /\ From[m] # Me
    /\ m \notin Present
    /\ Show(m, "pending")
    /\ badge' = badge \union {Conv(m)}
    /\ UNCHANGED <<read, noticed>>

\* Mail that comes once more lights the badge and changes nothing else.
Remind(m) ==
    /\ From[m] # Me
    /\ m \in Present
    /\ badge' = badge \union {Conv(m)}
    /\ UNCHANGED <<status, read, noticed>>

Fail(m) ==
    /\ From[m] # Me
    /\ Show(m, "failed")
    /\ UNCHANGED <<read, badge, noticed>>

\* What was announced may never be shown: the node crashed.
Forget(S) ==
    /\ noticed' = noticed \ S
    /\ UNCHANGED <<status, read, badge>>

MarkRead(m) ==
    /\ m \in Present
    /\ read' = read \union {m}
    /\ UNCHANGED <<status, badge, noticed>>

Open(p) ==
    /\ read' = read \union {m \in Present : From[m] = p /\ To[m] = Me}
    /\ badge' = badge \ {{Me, p}}
    /\ UNCHANGED <<status, noticed>>

Next ==
    \/ \E m \in Mail :
          \/ Send(m) \/ Notice(m) \/ Reveal(m) \/ Conceal(m)
          \/ Remind(m) \/ Fail(m) \/ MarkRead(m)
    \/ \E S \in SUBSET Mail : Forget(S)
    \/ \E p \in Peer : Open(p)

Spec == Init /\ [][Next]_vars
=============================================================================

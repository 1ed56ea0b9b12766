---------------------------- MODULE MCSubmissions ----------------------------
(* Two emails, two phones; each request of a kind with what it tells apart.  *)
EXTENDS Submissions

CONSTANTS e1, e2, p1, p2

Body(email, telegram, chat) == [email |-> email, telegram |-> telegram, chat |-> chat]
NoBody == Body(Absent, Absent, Absent)

From(op, email, phone, visit, receipt) == Asking(op, None, email, phone, visit, receipt, NoBody)
Staff(op, customer, email, phone) == Asking(op, customer, email, phone, FALSE, FALSE, NoBody)
Settings(op, body) == Asking(op, None, None, None, FALSE, FALSE, body)

\* Visitors meet each other and the staff that edits the customers, or the tasks
\* of what they sent meet the staff that edits the settings.
MCSituations ==
    {[asked |-> {From("order", e1, p1, TRUE, FALSE), From("order", e2, p1, FALSE, FALSE),
                 From("donation", e1, p2, FALSE, FALSE),
                 Staff("create_customer", None, None, p2), Staff("delete_customer", 0, None, None),
                 Staff("update_customer", 0, e1, Absent), Staff("update_customer", 1, e2, None)},
      customers |-> {None, [email |-> e2, phone |-> p1]},
      prefs |-> {None},
      broker |-> {"ended"}],
     [asked |-> {From("order", None, None, FALSE, FALSE), From("donation", e1, None, TRUE, TRUE),
                 From("pledge", e1, p1, TRUE, FALSE),
                 Settings("get_preferences", NoBody),
                 Settings("put_preferences", Body(Absent, Absent, None)),
                 Settings("put_preferences", Body(Absent, TRUE, "chat"))},
      customers |-> {None},
      prefs |-> {None, Body(TRUE, FALSE, "chat")},
      broker |-> {"queued", "ended"}]}

==============================================================================

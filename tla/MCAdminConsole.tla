--------------------------- MODULE MCAdminConsole ---------------------------
(***************************************************************************)
(* Small instances of AdminConsole for TLC, explored side by side in one   *)
(* run: concurrent logins against the limiter; operators disabling and     *)
(* provisioning an account whose console sends one request at a time; and  *)
(* the answers of two requests under way with a BUY and a SELL order.      *)
(***************************************************************************)
EXTENDS AdminConsole, TLC

CONSTANTS l1, l2, l3, d1, d2, c1, c2, s1, b1, p1, p2

Row(publicId, createdAt, status) ==
    [publicId |-> publicId, createdAt |-> createdAt, status |-> status]

MCBounds ==
    {[attempts |-> {l1, l2, l3}, passwords |-> {p1, p2}, commands |-> {},
      roles |-> {"manager"}, slots |-> {}, time |-> 3, orders |-> {},
      modes |-> {}, drafts |-> {}, later |-> {}],
     [attempts |-> {l1}, passwords |-> {p1, p2}, commands |-> {d1, d2},
      roles |-> {"manager"}, slots |-> {}, time |-> 2, orders |-> {},
      modes |-> {}, drafts |-> {}, later |-> {}],
     [attempts |-> {l1}, passwords |-> {p1}, commands |-> {d1},
      roles |-> {"manager", "owner"}, slots |-> {c1}, time |-> 1,
      orders |-> {Row(b1, 1, "awaiting_office_visit")},
      modes |-> {}, drafts |-> {}, later |-> {}],
     [attempts |-> {l1}, passwords |-> {p1}, commands |-> {},
      roles |-> {"manager"}, slots |-> {c1, c2}, time |-> 0,
      orders |-> {Row(s1, 1, "awaiting_deposit"), Row(b1, 2, "awaiting_office_visit")},
      modes |-> {}, drafts |-> {"completed"}, later |-> {}],
     [attempts |-> {l1}, passwords |-> {p1}, commands |-> {},
      roles |-> {"manager"}, slots |-> {c1, c2}, time |-> 0,
      orders |-> {Row(s1, 1, "awaiting_deposit")},
      modes |-> Modes, drafts |-> {"completed"}, later |-> {"expired"}]}
=============================================================================

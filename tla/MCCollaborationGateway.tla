----------------------- MODULE MCCollaborationGateway -----------------------
(***************************************************************************)
(* Model checking of CollaborationGateway: two users, of whom `ann` owns   *)
(* the project, with one session each; bob may have a second socket.  Each *)
(* configuration allows a few events of the environment of the kinds that  *)
(* it is about, in one or more scenarios.                                  *)
(***************************************************************************)
EXTENDS CollaborationGateway, TLC

CONSTANTS ann, bob, s1, x1, x2

TheUserOf == [s \in Socket |-> IF s = s1 THEN ann ELSE bob]
TheSessionOf == [s \in Socket |-> IF s = s1 THEN x1 ELSE x2]

\* Documents are interchangeable, and so are operations and the sockets of bob.
Interchangeable ==
  Permutations(Document) \cup Permutations(Op) \cup Permutations(Socket \ {s1})

\* The events of the environment that each configuration allows.
NoEvents ==
  [join |-> 0, drop |-> 0, command |-> 0, resend |-> 0, lock |-> 0, expire |-> 0, put |-> 0,
   delete |-> 0, project |-> 0, remove |-> 0, grant |-> 0, revoke |-> 0, fail |-> 0,
   lost |-> 0, crash |-> 0]

Joining == {[NoEvents EXCEPT !.join = 3, !.drop = 1],
            [NoEvents EXCEPT !.join = 3, !.revoke = 1],
            [NoEvents EXCEPT !.join = 2, !.drop = 1, !.revoke = 1]}
Removing == {[NoEvents EXCEPT !.join = 3, !.remove = 1, !.grant = 1],
             [NoEvents EXCEPT !.join = 2, !.remove = 1, !.grant = 1, !.fail = 1]}
Operating == {[NoEvents EXCEPT !.join = 2, !.command = 1, !.remove = 1],
              [NoEvents EXCEPT !.join = 1, !.command = 1, !.remove = 1, !.fail = 1]}
Announcing == {[NoEvents EXCEPT !.join = 2, !.put = 1, !.remove = 1]}
Rooms == Joining \cup Removing \cup Operating \cup Announcing

Failing == [NoEvents EXCEPT !.join = 2, !.command = 2, !.resend = 1, !.fail = 1]
Crashing == [NoEvents EXCEPT !.join = 2, !.command = 2, !.resend = 1, !.crash = 1]
Resending == [NoEvents EXCEPT !.join = 2, !.command = 1, !.resend = 1, !.fail = 1, !.crash = 1]
Hiding == [NoEvents EXCEPT !.join = 2, !.command = 2, !.resend = 1, !.lost = 1]
Locking == [NoEvents EXCEPT !.join = 2, !.lock = 2, !.command = 1, !.expire = 1, !.drop = 1]
Replacing == [NoEvents EXCEPT !.join = 1, !.command = 1, !.put = 1, !.delete = 1, !.project = 1,
                              !.remove = 1, !.fail = 1]
Synchronising == [NoEvents EXCEPT !.join = 1, !.command = 1, !.put = 2, !.lock = 1, !.drop = 1]
Work == {Failing, Crashing, Resending, Hiding, Locking, Replacing, Synchronising}

Telling == [NoEvents EXCEPT !.join = 2, !.command = 1, !.put = 1, !.fail = 1]
Recovering == [NoEvents EXCEPT !.join = 2, !.command = 1, !.crash = 1]
Expelling == [NoEvents EXCEPT !.join = 2, !.put = 1, !.remove = 1, !.drop = 1, !.fail = 1]
Settling == {Telling, Recovering, Expelling}

Rejoining == {[NoEvents EXCEPT !.join = 2]}
Stale == {[NoEvents EXCEPT !.join = 1, !.put = 1, !.command = 1, !.lock = 1, !.fail = 1]}
=============================================================================

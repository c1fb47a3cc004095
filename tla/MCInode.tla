------------------------------ MODULE MCInode ------------------------------
(* Two processes and six inodes. *)
EXTENDS Inode

MCProc == {1, 2}

Dir(links) == [type |-> "dir", nlink |-> links]
File(links) == [type |-> "file", nlink |-> links]
Entry(f) == f @@ NoDir

(* The root with a file, as mkfs makes it. *)
Fresh ==
  [dinode |-> [i \in Inum |-> CASE i = 1 -> Dir(1) [] i = 2 -> File(1) [] OTHER -> Free],
   dir |-> [i \in Inum |-> IF i = 1 THEN Entry("." :> 1 @@ ".." :> 1 @@ "a" :> 2)
                           ELSE NoDir]]

(* The same after mkdir("d") and link("a", "d/b"). *)
Used ==
  [dinode |-> [i \in Inum |-> CASE i = 1 -> Dir(2) [] i = 2 -> File(2)
                                [] i = 3 -> Dir(1) [] OTHER -> Free],
   dir |-> [i \in Inum |->
              CASE i = 1 -> Entry("." :> 1 @@ ".." :> 1 @@ "a" :> 2 @@ "d" :> 3)
                [] i = 3 -> Entry("." :> 3 @@ ".." :> 1 @@ "b" :> 2)
                [] OTHER -> NoDir]]

Call(op, path) == [op |-> op, path |-> path, new |-> <<>>]
LinkTo(old, new) == [op |-> "link", path |-> old, new |-> new]
CloseIt == Call("close", <<>>)

Mix(first, one, two) ==
  [dinode |-> first.dinode, dir |-> first.dir, calls |-> <<one, two>>]

(* Names are removed while another process uses them; nothing is created.  *)
Removing ==
  Mix(Used,
      {Call("unlink", <<"/", "a">>), Call("unlink", <<"/", "d", "b">>),
       Call("unlink", <<"/", "d">>), LinkTo(<<"/", "a">>, <<"/", "d">>)},
      {Call("chdir", <<"d">>), Call("chdir", <<"..">>), Call("open", <<"b">>), CloseIt,
       Call("unlink", <<"/", "b">>), LinkTo(<<"b">>, <<"/", "b">>)})

(* Two processes make the same names; nothing is removed. *)
Creating ==
  Mix(Fresh,
      {Call("mkdir", <<"d">>), Call("create", <<"d", "b">>), CloseIt,
       Call("open", <<"a">>)},
      {Call("mkdir", <<"/", "d">>), Call("mknod", <<"/", "d", "b">>),
       LinkTo(<<"/", "a">>, <<"d", "a">>), Call("chdir", <<"d">>)})

(* One process makes and removes. *)
Alone ==
  Mix(Fresh,
      {Call("mkdir", <<"/", "d">>), Call("create", <<"/", "a">>),
       Call("create", <<"/", "d", "b">>), Call("unlink", <<"/", "d", "b">>),
       Call("unlink", <<"/", "d">>), Call("unlink", <<"/", "a">>),
       Call("unlink", <<".">>), Call("chdir", <<"d">>), Call("chdir", <<"..">>),
       LinkTo(<<"/", "a">>, <<"/", "d", "b">>), CloseIt}, {})

(* One process removes while another creates. *)
Racing ==
  Mix(Fresh, {Call("unlink", <<"/", "a">>)}, {Call("create", <<"/", "b">>)})

MCRacing == {Racing}
MCMixes == {Removing, Creating, Alone}
=============================================================================

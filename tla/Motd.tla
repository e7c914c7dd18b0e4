-------------------------------- MODULE Motd --------------------------------
(***************************************************************************)
(* The messages of the day (motd.c): the server's own, the one for users   *)
(* of other servers and those of Motd blocks, and the cache of file        *)
(* contents that they share and count references to.  A Motd is a name;    *)
(* the files change at any time.                                           *)
(***************************************************************************)
EXTENDS Naturals, Sequences, FiniteSets, SequencesExt

CONSTANTS
  Others,      \* Motds that a Motd block may make
  Paths,       \* files
  MaxChanges   \* bound: changes of a file

VARIABLES motd,     \* by Motd: [path, max, cache], cache a number or 0
          cache,    \* cachelist: from numbers to [path, max, ver, ref]
          file,     \* by path: [ver, there]
          since,    \* by path: its version when all was last read again
          ddb,      \* register "0" of the DDB's table of MOTDs: "none", "%LOCALMOTD%" or "text"
          crashed   \* a null pointer was followed

dvars == <<motd, cache, file, since, ddb, crashed>>
-----------------------------------------------------------------------------
Lines == 2   \* MOTD_MAXLINES and MOTD_MAXREMOTE, as two values
Few == 1
Free(s) == CHOOSE i \in 1..(Cardinality(Others) + 3) : i \notin DOMAIN s.cache

(* s = [motd, cache].                                                      *)
motd_cache(s, m) ==
  LET x == s.motd[m]
      Hit == {i \in DOMAIN s.cache : s.cache[i].path = x.path /\ s.cache[i].max = x.max}
      h == CHOOSE h \in Hit : TRUE
      i == Free(s)
      new == [path |-> x.path, max |-> x.max, ver |-> file[x.path].ver, ref |-> 1]
  IN  IF x.cache # 0 THEN s
      ELSE IF Hit # {} THEN [motd |-> [s.motd EXCEPT ![m].cache = h], cache |-> [s.cache EXCEPT ![h].ref = @ + 1]]
      ELSE IF ~file[x.path].there THEN s
      ELSE [motd |-> [s.motd EXCEPT ![m].cache = i], cache |-> [j \in DOMAIN s.cache \cup {i} |-> IF j = i THEN new ELSE s.cache[j]]]

motd_decache(s, m) ==
  LET i == s.motd[m].cache
  IN  IF i = 0 THEN s
      ELSE [motd |-> [s.motd EXCEPT ![m].cache = 0],
            cache |-> IF s.cache[i].ref = 1 THEN [j \in DOMAIN s.cache \ {i} |-> s.cache[j]] ELSE [s.cache EXCEPT ![i].ref = @ - 1]]
motd_destroy(s, m) ==
  LET u == motd_decache(s, m) IN [u EXCEPT !.motd = [x \in DOMAIN u.motd \ {m} |-> u.motd[x]]]
motd_create(s, m, p, max) ==
  [s EXCEPT !.motd = [x \in DOMAIN s.motd \cup {m} |-> IF x = m THEN [path |-> p, max |-> max, cache |-> 0] ELSE s.motd[x]]]

Blocks == SetToSeq(DOMAIN motd \ {"local", "remote"})
Now == [motd |-> motd, cache |-> cache]
Set(s) == motd' = s.motd /\ cache' = s.cache
-----------------------------------------------------------------------------
(* Mutant: the Motds of blocks keep what they have. *)
RecacheOwn ==
  /\ Set(FoldLeft(motd_cache, FoldLeft(motd_decache, Now, <<"local", "remote">>), <<"local", "remote">>))
  /\ since' = [p \in Paths |-> file[p].ver] /\ UNCHANGED <<file, ddb, crashed>>
(* REHASH M. *)
motd_recache ==
  /\ Set(FoldLeft(motd_cache, FoldLeft(motd_decache, Now, <<"local", "remote">> \o Blocks), <<"local", "remote">>))
  /\ since' = [p \in Paths |-> file[p].ver] /\ UNCHANGED <<file, ddb, crashed>>

(* A feature names another file: both are made anew, blocks stay. *)
motd_init(p, q) ==
  /\ motd["local"].path # p \/ motd["remote"].path # q
  /\ LET a == motd_cache(motd_create(motd_destroy(Now, "local"), "local", p, Lines), "local")
     IN  Set(motd_cache(motd_create(motd_destroy(a, "remote"), "remote", q, Few), "remote"))
  /\ UNCHANGED <<file, since, ddb, crashed>>

(* REHASH: the blocks go, the two are read again, then come the blocks of  *)
(* the file.                                                               *)
motd_clear(new) ==
  LET a == FoldLeft(motd_destroy, FoldLeft(motd_decache, Now, <<"local", "remote">>), Blocks)
      b == FoldLeft(motd_cache, a, <<"local", "remote">>)
      motd_add(s, m) == motd_create(s, m, new[m], Lines)
  IN  /\ Set(FoldLeft(motd_add, b, SetToSeq(DOMAIN new)))
      /\ since' = [p \in Paths |-> file[p].ver] /\ UNCHANGED <<file, ddb, crashed>>

(* A user is shown a Motd (motd_send, motd_signon): with a DDB register    *)
(* the file is needed all the same.                                        *)
motd_forward(m) ==
  LET s == motd_cache(Now, m)
  IN  /\ Set(s)
      /\ crashed' = (crashed \/ (s.motd[m].cache = 0 /\ ddb = "text"))
      /\ UNCHANGED <<file, since, ddb>>

FileChanges(p, there) ==
  /\ file[p].ver < MaxChanges
  /\ file' = [file EXCEPT ![p] = [ver |-> @.ver + 1, there |-> there]]
  /\ UNCHANGED <<motd, cache, since, ddb, crashed>>
DdbChanges(d) == ddb # d /\ ddb' = d /\ UNCHANGED <<motd, cache, file, since, crashed>>
-----------------------------------------------------------------------------
MoInit ==
  \E p, q \in Paths :
    /\ motd = ("local" :> [path |-> p, max |-> Lines, cache |-> 1]) @@ ("remote" :> [path |-> q, max |-> Few, cache |-> 2])
    /\ cache = <<[path |-> p, max |-> Lines, ver |-> 0, ref |-> 1], [path |-> q, max |-> Few, ver |-> 0, ref |-> 1]>>
    /\ file = [r \in Paths |-> [ver |-> 0, there |-> TRUE]] /\ since = [r \in Paths |-> 0]
    /\ ddb = "none" /\ crashed = FALSE

MoNext ==
  /\ ~crashed
  /\ \/ motd_recache
     \/ \E p, q \in Paths : motd_init(p, q)
     \/ \E S \in SUBSET Others : \E new \in [S -> Paths] : motd_clear(new)
     \/ \E m \in DOMAIN motd : motd_forward(m)
     \/ \E p \in Paths, t \in BOOLEAN : FileChanges(p, t)
     \/ \E d \in {"none", "%LOCALMOTD%", "text"} : DdbChanges(d)
-----------------------------------------------------------------------------
(* A cached file is counted once for each Motd that shows it and is freed  *)
(* with the last: none is freed early, and none stays (motd_cache,         *)
(* motd_decache).                                                          *)
RefsAreCounted ==
  /\ \A m \in DOMAIN motd : motd[m].cache # 0 => motd[m].cache \in DOMAIN cache
  /\ \A i \in DOMAIN cache : cache[i].ref > 0 /\ cache[i].ref = Cardinality({m \in DOMAIN motd : motd[m].cache = i})

(* After REHASH, or REHASH M, nobody is shown a file as it was before,     *)
(* though Motds share the cache and are read at different times            *)
(* (motd_recache, motd_clear, motd_init).                                  *)
NoStaleMotd == \A i \in DOMAIN cache : cache[i].ver >= since[cache[i].path]

(* A user can be shown a Motd whatever files are there.  Does not hold:    *)
(* with a text in the DDB and no file in the cache motd_forward follows a  *)
(* null pointer (motd.c, line 305).                                        *)
NeverCrashed == ~crashed
=============================================================================

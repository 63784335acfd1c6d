----------------------------- MODULE SiteLayout ----------------------------
(***************************************************************************)
(* The tree of saved sites (site_layout.rs): the changes a batch makes to  *)
(* the sites and to the layout of the tree, and the undo of a batch after  *)
(* other changes.  A layout has folders, labels of folders and sites, and  *)
(* marks: favorites, recents and collapsed folders, which the code keeps   *)
(* in lists of their own and restores entry by entry in the same way.      *)
(***************************************************************************)
EXTENDS Naturals, Sequences, SequencesExt, FiniteSets

CONSTANTS
    Id,        \* sites there may be
    Name,      \* names of folders
    Lower,     \* to_lowercase of a name
    TreeDepth,     \* longest path of folders (MAX_SITE_GROUP_LEN)
    Label,     \* labels there may be
    NoLabel

ASSUME LayoutAssumption ==
    /\ IsFiniteSet(Id) /\ IsFiniteSet(Name) /\ IsFiniteSet(Label)
    /\ DOMAIN Lower = Name /\ TreeDepth \in Nat \ {0} /\ NoLabel \notin Label

(* ------------------------------- paths ---------------------------------- *)
Top  == <<>>
Path == UNION {[1..n -> Name] : n \in 1..TreeDepth}
parent_path(p) == Front(p)
base_name(p)   == Last(p)
is_same_or_under(p, a) == IsPrefix(a, p)
Ancestors(p)   == {SubSeq(p, 1, n) : n \in 1..Len(p)}
Ending(p, a)   == SubSeq(p, Len(a) + 1, Len(p))
Siblings(folders, parent, name) ==      \* find_sibling_ci
    {f \in folders : parent_path(f) = parent /\ Lower[base_name(f)] = Lower[name]}

(* A site is the folder it is filed under and a version of the rest of it. *)
NoSite == [group |-> Top, ver |-> 0]
Saved(sites) == {i \in Id : sites[i] # NoSite}

EmptyLayout == [folders |-> {}, marks |-> {}, labels |-> {},
                siteLabel |-> [i \in Id |-> NoLabel], folderLabel |-> [p \in Path |-> NoLabel]]
FolderMark(m) == m[1] = "folder"
Known(k, ok, labels) == IF ok /\ k \in labels THEN k ELSE NoLabel

reconcile(l, sites) ==
    LET folders == UNION {Ancestors(p) : p \in l.folders \cup {sites[i].group : i \in Id}} IN
    [l EXCEPT !.folders = folders,
              !.marks = {m \in @ : IF FolderMark(m) THEN m[2] \in folders ELSE m[2] \in Saved(sites)},
              !.siteLabel = [i \in Id |-> Known(@[i], i \in Saved(sites), l.labels)],
              !.folderLabel = [p \in Path |-> Known(@[p], p \in folders, l.labels)]]

(* ----------------------------- folder moves ----------------------------- *)
(* moves maps folders to where they go, all at once; what is inside goes   *)
(* along.                                                                  *)
Moves(moves, p) == Ancestors(p) \cap DOMAIN moves # {}
moved_path(moves, p) ==
    IF ~Moves(moves, p) THEN p
    ELSE LET from == CHOOSE a \in Ancestors(p) \cap DOMAIN moves :
                         \A b \in Ancestors(p) \cap DOMAIN moves : Len(a) <= Len(b)
         IN  moves[from] \o Ending(p, from)

(* On a merge the label already at the target wins.                        *)
remap_layout(l, moves) ==
    LET to(p) == moved_path(moves, p)
        arriving(q) == {p \in Path : Moves(moves, p) /\ to(p) = q /\ l.folderLabel[p] # NoLabel}
        stays(q) == IF Moves(moves, q) THEN NoLabel ELSE l.folderLabel[q]
    IN  [l EXCEPT
            !.folders = {to(p) : p \in @},
            !.marks = {IF FolderMark(m) THEN [m EXCEPT ![2] = to(@)] ELSE m : m \in @},
            !.folderLabel = [q \in Path |->
                IF stays(q) = NoLabel /\ arriving(q) # {}
                THEN l.folderLabel[CHOOSE p \in arriving(q) : TRUE] ELSE stays(q)]]

(* A batch works on [sites, layout, remaps]; an error leaves no outcome.   *)
remap_paths(st, moves) ==
    LET moved == {i \in Saved(st.sites) : Moves(moves, st.sites[i].group)}
        all   == {st.sites[i].group : i \in moved} \cup st.layout.folders
    IN  IF moves = <<>> THEN {st}
        ELSE IF \E p \in all : moved_path(moves, p) \notin Path THEN {}
        ELSE {[sites  |-> [i \in Id |-> IF i \in moved
                              THEN [st.sites[i] EXCEPT !.group = moved_path(moves, @)]
                              ELSE st.sites[i]],
               layout |-> remap_layout(st.layout, moves),
               remaps |-> Append(st.remaps, [moves |-> moves, ids |-> moved])]}
Single(from, to) == [p \in {from} |-> to]
Target(folders, from, parent, name, merge) ==
    LET clash == Siblings(folders, parent, name) \ {from} IN
    IF clash = {} THEN {Append(parent, name)} ELSE IF merge THEN {CHOOSE f \in clash : TRUE} ELSE {}

rename_folder(st, path, name, merge) ==
    IF path \notin st.layout.folders THEN {}
    ELSE IF name = base_name(path) THEN {st}
    ELSE UNION {remap_paths(st, Single(path, t)) :
                    t \in Target(st.layout.folders, path, parent_path(path), name, merge)}
move_folder(st, path, to, merge) ==
    IF path \notin st.layout.folders \/ is_same_or_under(to, path) THEN {}
    ELSE IF parent_path(path) = to THEN {st}
    ELSE UNION {remap_paths(st, Single(path, t)) :
                    t \in Target(st.layout.folders, Top, to, base_name(path), merge)}

(* With its contents, or everything inside lifted one level: a folder that *)
(* clashes with one of the parent merges into it.                          *)
delete_folder(st, path, keep_contents) ==
    LET inside(p) == is_same_or_under(p, path)
        above == parent_path(path)
        gone == [st EXCEPT
            !.sites = [i \in Id |-> IF @[i] # NoSite /\ inside(@[i].group) THEN NoSite ELSE @[i]],
            !.layout.folders = {f \in @ : ~inside(f)}]
        rest == [st EXCEPT
            !.sites = [i \in Id |-> IF @[i] # NoSite /\ @[i].group = path
                                    THEN [@[i] EXCEPT !.group = above] ELSE @[i]],
            !.layout.folders = @ \ {path},
            !.layout.marks = {m \in @ : m[1] # "folder" \/ m[2] # path},
            !.layout.folderLabel[path] = NoLabel]
        children == {SubSeq(p, 1, Len(path) + 1) : p \in
                        {q \in rest.layout.folders \cup {rest.sites[i].group : i \in Id} :
                            inside(q) /\ q # path}}
        siblings(c) == {f \in Siblings(st.layout.folders, above, base_name(c)) : ~inside(f)}
        lifted == [c \in children |-> IF siblings(c) = {} THEN Append(above, base_name(c))
                                      ELSE CHOOSE f \in siblings(c) : TRUE]
    IN  IF path \notin st.layout.folders THEN {}
        ELSE IF keep_contents THEN remap_paths(rest, lifted) ELSE {gone}

(* ------------------------------- other ops ------------------------------ *)
move_site(st, i, to) ==
    IF st.sites[i] = NoSite THEN {} ELSE {[st EXCEPT !.sites[i].group = to]}
rename_site(st, i, ver) ==
    IF st.sites[i] = NoSite THEN {} ELSE {[st EXCEPT !.sites[i].ver = ver]}
delete_site(st, i) ==
    IF st.sites[i] = NoSite THEN {} ELSE {[st EXCEPT !.sites[i] = NoSite]}
copy_site(st, i, group) ==              \* fresh_id
    IF st.sites[i] = NoSite THEN {}
    ELSE {[st EXCEPT !.sites[j] = [st.sites[i] EXCEPT !.group = group],
                     !.layout.siteLabel[j] = st.layout.siteLabel[i]] : j \in Id \ Saved(st.sites)}
create_folder(st, path) ==
    IF path \in st.layout.folders
       \/ \E p \in Ancestors(path) \ st.layout.folders :
              Siblings(st.layout.folders, parent_path(p), base_name(p)) # {}
    THEN {} ELSE {[st EXCEPT !.layout.folders = @ \cup Ancestors(path)]}
copy_folder(st, path, to, name) ==
    LET target == Append(to, name)
        map(p) == target \o Ending(p, path)
        inside(p) == is_same_or_under(p, path)
        copied == {f \in st.layout.folders : inside(f)}
        from == {i \in Saved(st.sites) : inside(st.sites[i].group)}
        free == Id \ Saved(st.sites)
        WithCopies(new) == [st EXCEPT
            !.sites = [j \in Id |-> IF \E i \in from : new[i] = j
                THEN LET i == CHOOSE k \in from : new[k] = j
                     IN  [@[i] EXCEPT !.group = map(@)] ELSE @[j]],
            !.layout.siteLabel = [j \in Id |-> IF \E i \in from : new[i] = j
                THEN @[CHOOSE k \in from : new[k] = j] ELSE @[j]],
            !.layout.folders = @ \cup {map(f) : f \in copied},
            !.layout.folderLabel = [q \in Path |-> IF \E f \in copied : map(f) = q
                THEN @[CHOOSE f \in copied : map(f) = q] ELSE @[q]]]
    IN  IF path \notin st.layout.folders \/ is_same_or_under(to, path)
           \/ Siblings(st.layout.folders, to, name) # {} \/ \E f \in copied : map(f) \notin Path
        THEN {}
        ELSE {WithCopies(new) : new \in {g \in [from -> free] : IsInjective(g)}}
set_marks(st, marks) == {[st EXCEPT !.layout.marks = marks]}
set_label(st, of, x, k) ==
    IF k # NoLabel /\ k \notin st.layout.labels THEN {}
    ELSE IF of = "site"
    THEN IF st.sites[x] = NoSite THEN {} ELSE {[st EXCEPT !.layout.siteLabel[x] = k]}
    ELSE IF x \notin st.layout.folders THEN {} ELSE {[st EXCEPT !.layout.folderLabel[x] = k]}
set_label_defs(st, labels) == {[st EXCEPT !.layout.labels = labels]}

(* ---------------------------- apply_one, apply_ops ---------------------- *)
apply_one(st, op) ==
    CASE op[1] = "move sites"    -> move_site(st, op[2], op[3])
      [] op[1] = "copy sites"    -> copy_site(st, op[2], op[3])
      [] op[1] = "delete sites"  -> delete_site(st, op[2])
      [] op[1] = "rename site"   -> rename_site(st, op[2], op[3])
      [] op[1] = "create folder" -> create_folder(st, op[2])
      [] op[1] = "rename folder" -> rename_folder(st, op[2], op[3], op[4])
      [] op[1] = "move folder"   -> move_folder(st, op[2], op[3], op[4])
      [] op[1] = "copy folder"   -> copy_folder(st, op[2], op[3], op[4])
      [] op[1] = "delete folder" -> delete_folder(st, op[2], op[3])
      [] op[1] = "set favorites" -> set_marks(st, op[2])
      [] op[1] = "set label"     -> set_label(st, op[2], op[3], op[4])
      [] op[1] = "set labels"    -> set_label_defs(st, op[2])
(* The outcomes of a batch, each with what its undo needs.                 *)
apply_ops(sites, layout, ops) ==
    LET before == reconcile(layout, sites)
        start  == {[sites |-> sites, layout |-> before, remaps |-> <<>>]}
        ends   == FoldLeft(LAMBDA sts, op : UNION {apply_one(st, op) : st \in sts}, start, ops)
    IN  {LET after == reconcile(st.layout, st.sites)
             changed == {i \in Id : sites[i] # st.sites[i]} IN
         [before |-> sites, after |-> st.sites, changed |-> changed,
          layout_before |-> before, layout_after |-> after,
          remaps |-> [n \in DOMAIN st.remaps |-> [st.remaps[n] EXCEPT !.ids = @ \cap changed]]]
            : st \in ends}

(* --------------------------------- undo --------------------------------- *)
(* Three-way: what the batch changed goes back where it still is as the    *)
(* batch left it.                                                          *)
restore_set(now, before, after) == (now \ (after \ before)) \cup (before \ after)
(* Mutant: a value the batch took away does not come back.                 *)
restore_present(now, before, after) ==
    [k \in DOMAIN now |-> IF before[k] # after[k] /\ now[k] = after[k] /\ after[k] # NoLabel
                          THEN before[k] ELSE now[k]]
restore_map(now, before, after) ==
    [k \in DOMAIN now |-> IF before[k] # after[k] /\ now[k] = after[k] THEN before[k] ELSE now[k]]

Skipped(u, sites) == {i \in u.changed : sites[i] # u.after[i]}
(* The moves that keep a skipped site stay: the layout from before is read *)
(* as if they had happened.  Mutant: as it was.                            *)
WithKeptNone(u, skipped) == u.layout_before
WithKept(u, skipped) ==
    FoldLeft(LAMBDA l, r : IF r.ids \cap skipped = {} THEN l ELSE remap_layout(l, r.moves),
             u.layout_before, u.remaps)
restore_sites(u, sites) ==
    [i \in Id |-> IF i \in u.changed \ Skipped(u, sites) THEN u.before[i] ELSE sites[i]]
undo(u, sites, layout) ==
    LET back == restore_sites(u, sites)
        was == WithKept(u, Skipped(u, sites))  is == u.layout_after
        l == [layout EXCEPT
                !.folders = restore_set(@, was.folders, is.folders),
                !.marks = restore_set(@, was.marks, is.marks),
                !.labels = restore_set(@, was.labels, is.labels),
                !.siteLabel = restore_map(@, was.siteLabel, is.siteLabel),
                !.folderLabel = restore_map(@, was.folderLabel, is.folderLabel)]
    IN  [sites |-> back, layout |-> reconcile(l, back)]
=============================================================================

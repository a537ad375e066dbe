------------------------ MODULE KeyboardMouseProofs -------------------------
(***************************************************************************)
(* Keyboards and mice, for any number of connections, any peers and        *)
(* traits, modes and configuration changes: roles are sound and obey the   *)
(* applied mode, without a hypothesis.  What core 1 does is a function of  *)
(* one record built from about twenty others, so each lemma says what one  *)
(* of them preserves.                                                      *)
(***************************************************************************)
EXTENDS KeyboardMouse, WellFoundedInduction, TLAPS

-----------------------------------------------------------------------------
(* Rebuilding the registry.  Every connected peer is looked at in turn:    *)
(* what is true of the emptied registry and kept by one turn is true at    *)
(* the end.                                                                *)

(* A set of numbers that is not empty has a least one.                     *)
LEMMA LeastNatural ==
  ASSUME NEW T, T \subseteq Nat, T # {}
  PROVE  \E x \in T : \A y \in T : ~ (y < x)
<1>. DEFINE R == OpToRel(<, Nat)
<1>1. IsWellFoundedOn(R, Nat)
  BY NatLessThanWellFounded
<1>. HIDE DEF R
<1>2. \E x \in T : \A y \in T : ~ (<<y, x>> \in R)
  BY <1>1, WFMin
<1>3. \A x, y \in Nat : y < x => <<y, x>> \in R
  BY DEF R, OpToRel
<1>. QED BY <1>2, <1>3

(* What holds of 0 and passes from a number to the next holds of all.      *)
LEMMA Climb ==
  ASSUME NEW A, 0 \in A, \A n \in Nat : n \in A => n + 1 \in A
  PROVE  Nat \subseteq A
<1>. DEFINE T == Nat \ A
<1>1. SUFFICES ASSUME T # {} PROVE FALSE
  OBVIOUS
<1>2. PICK x \in T : \A y \in T : ~ (y < x)
  BY <1>1, LeastNatural
<1>3. x # 0 /\ x - 1 \in Nat /\ x - 1 < x /\ x = (x - 1) + 1
  BY <1>2
<1>4. x - 1 \notin T
  BY <1>2, <1>3
<1>. QED BY <1>2, <1>3, <1>4

(* The registry reset, one connection looked at, and the walk over the     *)
(* first n.                                                                *)
Emptied(g) == Silenced([g EXCEPT !.sources = [c \in Conn |-> NoSource], !.owner = Nobody])
Turn(f, g, c) ==
  CASE c = 0 -> Emptied(g)
    [] c > 0 /\ Live(f[c - 1], c) -> Noted(f[c - 1], c)
    [] OTHER -> f[c - 1]
Walk(f, g, n) == f = [c \in 0 .. n |-> Turn(f, g, c)]

(* Rebuilt is a walk over all connections.                                 *)
LEMMA RebuiltWalks ==
  ASSUME NEW g
  PROVE  Rebuilt(g) = (CHOOSE f : Walk(f, g, MaxConn))[MaxConn]
BY DEF Rebuilt, Walk, Turn, Emptied

(* There is a walk of any length.                                          *)
LEMMA WalkExists ==
  ASSUME NEW g, NEW n \in Nat
  PROVE  \E f : Walk(f, g, n)
<1>. DEFINE A == {m \in Nat : \E f : Walk(f, g, m)}
<1>1. 0 \in A
  <2>. DEFINE e == [c \in 0 .. 0 |-> Emptied(g)]
  <2>1. \A c \in 0 .. 0 : Turn(e, g, c) = Emptied(g)
    BY DEF Turn
  <2>2. e = [c \in 0 .. 0 |-> Turn(e, g, c)]
    BY <2>1
  <2>3. Walk(e, g, 0)
    BY <2>2 DEF Walk
  <2>. QED BY <2>3
<1>2. ASSUME NEW m \in Nat, m \in A
      PROVE  m + 1 \in A
  <2>1. PICK f : Walk(f, g, m)
    BY <1>2
  <2>. DEFINE last == IF Live(f[m], m + 1) THEN Noted(f[m], m + 1) ELSE f[m]
              e == [c \in 0 .. m + 1 |-> IF c = m + 1 THEN last ELSE f[c]]
  <2>2. Turn(e, g, m + 1) = last
    <3>1. e[m] = f[m] /\ m + 1 # 0 /\ m + 1 > 0 /\ (m + 1) - 1 = m
      OBVIOUS
    <3>. HIDE DEF e
    <3>. QED BY <3>1 DEF Turn
  <2>3. ASSUME NEW c \in 0 .. m
        PROVE  Turn(e, g, c) = f[c]
    <3>1. f[c] = Turn(f, g, c)
      BY <2>1 DEF Walk
    <3>2. c > 0 => e[c - 1] = f[c - 1]
      OBVIOUS
    <3>3. c = 0 \/ c > 0
      OBVIOUS
    <3>. HIDE DEF e
    <3>. QED BY <3>1, <3>2, <3>3 DEF Turn
  <2>4. \A c \in 0 .. m + 1 : e[c] = Turn(e, g, c)
    <3>. SUFFICES ASSUME NEW c \in 0 .. m + 1 PROVE e[c] = Turn(e, g, c)
      OBVIOUS
    <3>1. CASE c = m + 1
      <4>1. e[c] = last
        BY <3>1
      <4>. QED BY <2>2, <3>1, <4>1
    <3>2. CASE c # m + 1
      <4>1. c \in 0 .. m /\ e[c] = f[c]
        BY <3>2
      <4>. QED BY <2>3, <4>1
    <3>. QED BY <3>1, <3>2
  <2>5. e = [c \in 0 .. m + 1 |-> Turn(e, g, c)]
    <3>1. e = [c \in 0 .. m + 1 |-> e[c]]
      OBVIOUS
    <3>. HIDE DEF e
    <3>. QED BY <2>4, <3>1
  <2>6. Walk(e, g, m + 1)
    BY <2>5 DEF Walk
  <2>. QED BY <2>6
<1>3. Nat \subseteq A
  <2>. HIDE DEF A
  <2>. QED BY <1>1, <1>2, Climb
<1>. QED BY <1>3

(* A rebuilt registry is reached from the emptied one by looking at the     *)
(* connections in turn.                                                     *)
LEMMA RebuiltInTurn ==
  ASSUME NEW g
  PROVE  \E f : /\ f[0] = Emptied(g)
                /\ Rebuilt(g) = f[MaxConn]
                /\ \A n \in Nat : n < MaxConn =>
                     f[n + 1] = IF Live(f[n], n + 1) THEN Noted(f[n], n + 1) ELSE f[n]
<1>. DEFINE f == CHOOSE e : Walk(e, g, MaxConn)
<1>1. MaxConn \in Nat
  BY KBoundAssumption
<1>2. Walk(f, g, MaxConn)
  <2>1. \E e : Walk(e, g, MaxConn)
    BY <1>1, WalkExists
  <2>. QED BY <2>1
<1>3. \A c \in 0 .. MaxConn : f[c] = Turn(f, g, c)
  <2>. HIDE DEF f
  <2>1. f = [c \in 0 .. MaxConn |-> Turn(f, g, c)]
    BY <1>2 DEF Walk
  <2>. QED BY <2>1
<1>4. Rebuilt(g) = f[MaxConn]
  BY RebuiltWalks DEF f
<1>. HIDE DEF f
<1>5. f[0] = Emptied(g)
  BY <1>1, <1>3 DEF Turn
<1>6. ASSUME NEW n \in Nat, n < MaxConn
      PROVE  f[n + 1] = IF Live(f[n], n + 1) THEN Noted(f[n], n + 1) ELSE f[n]
  <2>1. n + 1 \in 0 .. MaxConn /\ n + 1 > 0 /\ n + 1 # 0 /\ (n + 1) - 1 = n
    BY <1>1, <1>6
  <2>. QED BY <1>3, <2>1 DEF Turn
<1>. QED BY <1>4, <1>5, <1>6

-----------------------------------------------------------------------------
(* What each helper writes.  Frame(g, k, F) says that k is g but for the   *)
(* fields F: the lemmas of this part give each helper its frame and the    *)
(* value of what it changes.                                               *)

(* The fields of h, a record of that shape, and a change to some fields.   *)
Fields == {"dev", "records", "kb", "ms", "sources", "owner", "cached", "keys", "buttons",
           "motion", "console", "adopted", "applied", "next"}
State(g) ==
  DOMAIN g = Fields /\ DOMAIN g.dev = Conn /\ DOMAIN g.records = Conn /\ DOMAIN g.sources = Conn
(* k is g but for the fields F.                                            *)
Frame(g, k, F) == State(k) /\ \A f \in Fields \ F : k[f] = g[f]

(* A silenced console is neutral and nothing else changes.                 *)
LEMMA SilencedDoes ==
  ASSUME NEW g, State(g)
  PROVE  Frame(g, Silenced(g), {"console"}) /\ Silenced(g).console = Neutral
BY DEF Frame, State, Silenced, Fields

(* publish_locked() shows what is held.                                    *)
LEMMA PublishedDoes ==
  ASSUME NEW g, State(g)
  PROVE  /\ Frame(g, Published(g), {"console"})
         /\ Published(g).console = [src |-> Composite, keys |-> g.keys, buttons |-> g.buttons]
BY DEF Frame, State, Published, Fields

(* Dropping keys or buttons drops these only.                              *)
LEMMA DroppedDo ==
  ASSUME NEW g, State(g)
  PROVE  /\ Frame(g, KeysDropped(g), {"keys"}) /\ KeysDropped(g).keys = FALSE
         /\ Frame(g, MouseDropped(g), {"buttons", "motion"}) /\ MouseDropped(g).buttons = FALSE
<1>1. Frame(g, KeysDropped(g), {"keys"}) /\ KeysDropped(g).keys = FALSE
  BY DEF Frame, State, KeysDropped, Fields
<1>2. Frame(g, MouseDropped(g), {"buttons", "motion"})
  BY DEF Frame, State, MouseDropped, Fields
<1>3. MouseDropped(g).buttons = FALSE
  BY DEF State, MouseDropped, Fields
<1>. QED BY <1>1, <1>2, <1>3

(* A changed record is a record of that shape.                             *)
LEMMA FrameStates == ASSUME NEW g, NEW k, NEW F, Frame(g, k, F) PROVE State(k)
BY DEF Frame

(* Two changes in a row.                                                   *)
LEMMA FrameGoesOn ==
  ASSUME NEW g, NEW k, NEW l, NEW F, NEW G, Frame(g, k, F), Frame(k, l, G)
  PROVE  Frame(g, l, F \cup G)
BY DEF Frame

(* A change to few fields is a change to more.                             *)
LEMMA FrameWidens ==
  ASSUME NEW g, NEW k, NEW F, NEW G, Frame(g, k, F), F \subseteq G
  PROVE  Frame(g, k, G)
BY DEF Frame

(* No change at all.                                                       *)
LEMMA FrameStays == ASSUME NEW g, State(g), NEW F PROVE Frame(g, g, F)
BY DEF Frame

(* Keys and buttons dropped together.                                      *)
LEMMA BothDropped ==
  ASSUME NEW g, State(g)
  PROVE  LET k == MouseDropped(KeysDropped(g)) IN
         Frame(g, k, {"keys", "buttons", "motion"}) /\ k.keys = FALSE /\ k.buttons = FALSE
<1>. DEFINE j == KeysDropped(g)
            k == MouseDropped(j)
<1>1. Frame(g, j, {"keys"}) /\ j.keys = FALSE
  BY DroppedDo
<1>2. Frame(j, k, {"buttons", "motion"}) /\ k.buttons = FALSE
  BY <1>1, DroppedDo, FrameStates
<1>. HIDE DEF j, k
<1>3. k.keys = j.keys
  BY <1>2 DEF Frame, Fields
<1>4. Frame(g, k, {"keys"} \cup {"buttons", "motion"})
  BY <1>1, <1>2, FrameGoesOn
<1>5. Frame(g, k, {"keys", "buttons", "motion"})
  BY <1>4, FrameWidens
<1>. QED BY <1>1, <1>2, <1>3, <1>5 DEF j, k

(* sync_config() does nothing, or drops what is held and silences the      *)
(* console.                                                                *)
LEMMA ConfigAdoptedDoes ==
  ASSUME NEW g, State(g)
  PROVE  LET k == ConfigAdopted(g) IN
         \/ k = g /\ g.adopted = shared.gen
         \/ /\ Frame(g, k, {"keys", "buttons", "motion", "console", "adopted"})
            /\ k.keys = FALSE /\ k.buttons = FALSE /\ k.console = Neutral /\ k.adopted = shared.gen
<1>1. CASE g.adopted = shared.gen
  BY <1>1 DEF ConfigAdopted
<1>2. CASE g.adopted # shared.gen
  <2>. DEFINE a == [g EXCEPT !.adopted = shared.gen]
              b == MouseDropped(KeysDropped(a))
              k == Silenced(b)
  <2>1. Frame(g, a, {"adopted"}) /\ a.adopted = shared.gen
    BY DEF Frame, State, Fields
  <2>. HIDE DEF a
  <2>2. Frame(a, b, {"keys", "buttons", "motion"}) /\ b.keys = FALSE /\ b.buttons = FALSE
    BY <2>1, BothDropped, FrameStates
  <2>. HIDE DEF b
  <2>3. Frame(b, k, {"console"}) /\ k.console = Neutral
    BY <2>2, SilencedDoes, FrameStates
  <2>. HIDE DEF k
  <2>4. Frame(g, k, {"keys", "buttons", "motion", "console", "adopted"})
    BY <2>1, <2>2, <2>3 DEF Frame
  <2>5. k.keys = b.keys /\ k.buttons = b.buttons /\ k.adopted = b.adopted /\ b.adopted = a.adopted
    BY <2>2, <2>3 DEF Frame, Fields
  <2>6. ConfigAdopted(g) = k
    BY <1>2 DEF ConfigAdopted, a, b, k
  <2>. QED BY <2>1, <2>2, <2>3, <2>4, <2>5, <2>6
<1>. QED BY <1>1, <1>2

(* The owner stays with its half of the composite, or becomes the best     *)
(* source.                                                                 *)
LEMMA OwnerSettledDoes ==
  ASSUME NEW g, State(g)
  PROVE  LET k == OwnerSettled(g)
             b == Best(g.sources)
         IN  /\ Frame(g, k, {"owner"})
             /\ k.owner = IF InComposite(g, b) /\ InComposite(g, g.owner) THEN g.owner ELSE b
<1>. DEFINE b == Best(g.sources)
<1>. HIDE DEF b
<1>1. OwnerSettled(g) = IF InComposite(g, b) /\ InComposite(g, g.owner) THEN g ELSE [g EXCEPT !.owner = b]
  BY DEF OwnerSettled, b
<1>2. Frame(g, [g EXCEPT !.owner = b], {"owner"}) /\ [g EXCEPT !.owner = b].owner = b
  BY DEF Frame, State, Fields
<1>. QED BY <1>1, <1>2, FrameStays DEF b

(* register_source() writes the entry of one connection.                   *)
LEMMA EnrolledDoes ==
  ASSUME NEW g, State(g), NEW c \in Conn, NEW class, NEW member
  PROVE  LET k == Enrolled(g, c, class, member)
             known == c \in Standing(g.sources)
         IN  /\ Frame(g, k, {"sources"})
             /\ \A d \in Conn : d # c => k.sources[d] = g.sources[d]
             /\ k.sources[c] = [class |-> IF known /\ class = "unknown" THEN g.sources[c].class ELSE class,
                                member |-> member,
                                since |-> IF known THEN g.sources[c].since ELSE Latest(g.sources) + 1]
<1>. DEFINE known == c \in Standing(g.sources)
            s == [class |-> IF known /\ class = "unknown" THEN g.sources[c].class ELSE class,
                  member |-> member,
                  since |-> IF known THEN g.sources[c].since ELSE Latest(g.sources) + 1]
<1>1. Enrolled(g, c, class, member) = [g EXCEPT !.sources[c] = s]
  BY DEF Enrolled
<1>. HIDE DEF s
<1>2. Frame(g, [g EXCEPT !.sources[c] = s], {"sources"})
  BY DEF Frame, State, Fields
<1>3. [g EXCEPT !.sources[c] = s].sources = [g.sources EXCEPT ![c] = s]
  BY DEF State, Fields
<1>. QED BY <1>1, <1>2, <1>3 DEF State, s

(* A submission enrols its source, and silences the console if a live      *)
(* owner lost it.                                                          *)
LEMMA SubmittedDoes ==
  ASSUME NEW g, State(g), NEW c \in Conn, NEW member
  PROVE  LET e == OwnerSettled(Enrolled(g, c, "direct", member))
             k == Submitted(g, c, member)
         IN  /\ Frame(g, e, {"sources", "owner"})
             /\ Frame(g, k, {"sources", "owner", "console"})
             /\ k.sources = e.sources /\ k.owner = e.owner
             /\ k.console = IF g.owner # Nobody /\ e.owner # g.owner THEN Neutral ELSE g.console
<1>. DEFINE n == Enrolled(g, c, "direct", member)
            e == OwnerSettled(n)
            k == Submitted(g, c, member)
<1>1. Frame(g, n, {"sources"})
  BY EnrolledDoes
<1>. HIDE DEF n
<1>2. Frame(n, e, {"owner"})
  BY <1>1, OwnerSettledDoes, FrameStates
<1>3. k = IF g.owner # Nobody /\ e.owner # g.owner THEN Silenced(e) ELSE e
  BY DEF Submitted, n
<1>. HIDE DEF e, k
<1>4. Frame(g, e, {"sources", "owner"})
  BY <1>1, <1>2 DEF Frame
<1>5. Frame(e, Silenced(e), {"console"}) /\ Silenced(e).console = Neutral
  BY <1>4, FrameStates, SilencedDoes
<1>6. e.console = g.console
  BY <1>4 DEF Frame, Fields
<1>7. Frame(g, Silenced(e), {"sources", "owner", "console"}) /\ Frame(g, e, {"sources", "owner", "console"})
  BY <1>4, <1>5 DEF Frame
<1>8. Silenced(e).sources = e.sources /\ Silenced(e).owner = e.owner
  BY <1>5 DEF Frame, Fields
<1>9. Frame(g, k, {"sources", "owner", "console"}) /\ k.sources = e.sources /\ k.owner = e.owner
  BY <1>3, <1>7, <1>8
<1>10. k.console = IF g.owner # Nobody /\ e.owner # g.owner THEN Neutral ELSE g.console
  BY <1>3, <1>5, <1>6
<1>. QED BY <1>4, <1>9, <1>10 DEF n, e, k

-----------------------------------------------------------------------------
(* Peers and their records.                                                *)

(* A bound device: its driver is one its descriptor or class justifies.    *)
IsDevice(d) ==
  /\ DOMAIN d = {"peer", "gen", "mapped", "driver"}
  /\ d.peer \in Peer /\ d.gen \in Nat \ {0}
  /\ d.driver \in {"keyboard", "mouse", "gamepad"}
  /\ d.driver = "keyboard" => TypesKeys(Traits[d.peer])
  /\ d.driver = "mouse" => Points(Traits[d.peer])

(* Nothing about the peer says it is a mouse with macro keys.              *)
NotPad(t) == ~t.pointer \/ t.strong \/ ~t.ble
(* A record of a device: what it recorded, the device can do.              *)
IsRecord(r, d) ==
  LET t == Traits[d.peer] IN
  /\ DOMAIN r = {"gen", "keys", "pointer", "primary"}
  /\ r = NoRecord \/ r.gen = d.gen
  /\ r.primary \in Primary
  /\ r.keys \in BOOLEAN /\ r.pointer \in BOOLEAN
  /\ r.keys => TypesKeys(t)
  /\ r.pointer => Points(t)
  /\ r.primary \in {"keyboard", "combo"} => TypesKeys(t) /\ NotPad(t)
  /\ r.primary \in {"mouse", "combo"} => Points(t)
  /\ r.primary = "combo" => t.cod = "combo"

(* Every connected peer is a device with a record of its own or none.      *)
Shaped(g) ==
  /\ State(g)
  /\ g.next \in Nat \ {0}
  /\ \A c \in Conn : IF Live(g, c) THEN IsDevice(g.dev[c]) /\ IsRecord(g.records[c], g.dev[c])
                     ELSE g.records[c] = NoRecord

(* k is g but for the record of c, which may only have grown.              *)
Grown(g, k, c) ==
  LET r == RecordOf(g, c)
      s == RecordOf(k, c)
  IN  /\ Frame(g, k, {"records"})
      /\ \A d \in Conn : d # c => k.records[d] = g.records[d]
      /\ k.records[c].gen = g.dev[c].gen \/ k.records[c] = g.records[c]
      /\ IsRecord(k.records[c], g.dev[c])
      /\ IsRecord(s, g.dev[c]) /\ s.gen = g.dev[c].gen
      /\ r.keys => s.keys
      /\ r.pointer => s.pointer
      /\ r.primary # "none" => s.primary = r.primary

(* The record in force is one of the device, fresh if the stored one is of *)
(* an earlier connection.                                                  *)
LEMMA RecordOfIs ==
  ASSUME NEW g, Shaped(g), NEW c \in Conn, Live(g, c)
  PROVE  LET r == RecordOf(g, c) IN
         /\ IsRecord(r, g.dev[c]) /\ r.gen = g.dev[c].gen
         /\ g.records[c].gen = g.dev[c].gen => r = g.records[c]
         /\ g.records[c].gen # g.dev[c].gen =>
              ~r.keys /\ ~r.pointer /\ r.primary = "none" /\ g.records[c] = NoRecord
<1>1. IsDevice(g.dev[c]) /\ IsRecord(g.records[c], g.dev[c])
  BY DEF Shaped
<1>. DEFINE n == [NoRecord EXCEPT !.gen = g.dev[c].gen]
<1>2. /\ DOMAIN n = {"gen", "keys", "pointer", "primary"} /\ n.gen = g.dev[c].gen
      /\ n.keys = FALSE /\ n.pointer = FALSE /\ n.primary = "none"
  BY DEF NoRecord
<1>3. RecordOf(g, c) = IF g.records[c].gen = g.dev[c].gen THEN g.records[c] ELSE n
  BY DEF RecordOf
<1>. HIDE DEF n
<1>4. IsRecord(n, g.dev[c])
  BY <1>2 DEF IsRecord, Primary
<1>5. g.records[c].gen # g.dev[c].gen => g.records[c] = NoRecord
  BY <1>1 DEF IsRecord
<1>. QED BY <1>1, <1>2, <1>3, <1>4, <1>5

(* A record that does not change has grown.                                *)
LEMMA GrownStays ==
  ASSUME NEW g, Shaped(g), NEW c \in Conn, Live(g, c)
  PROVE  Grown(g, g, c)
<1>1. IsRecord(g.records[c], g.dev[c]) /\ State(g)
  BY DEF Shaped
<1>. QED BY <1>1, RecordOfIs, FrameStays DEF Grown

(* Growth keeps the shape and the devices.                                 *)
LEMMA GrownShaped ==
  ASSUME NEW g, NEW k, Shaped(g), NEW c \in Conn, Live(g, c), Grown(g, k, c)
  PROVE  Shaped(k) /\ Live(k, c) /\ k.dev = g.dev
<1>1. State(k) /\ k.next = g.next /\ k.dev = g.dev
  BY DEF Grown, Frame, Fields
<1>. QED BY <1>1 DEF Shaped, Grown, Live

(* Growth upon growth is growth.                                           *)
LEMMA GrownGoesOn ==
  ASSUME NEW g, NEW k, NEW l, Shaped(g), NEW c \in Conn, Live(g, c),
         Grown(g, k, c), Grown(k, l, c)
  PROVE  Grown(g, l, c)
<1>1. k.dev = g.dev
  BY GrownShaped
<1>2. Frame(g, l, {"records"})
  BY DEF Grown, Frame
<1>. QED BY <1>1, <1>2 DEF Grown

(* A step that replaces the record of c.                                   *)
LEMMA RecordSet ==
  ASSUME NEW g, State(g), NEW c \in Conn, NEW s,
         s.gen = g.dev[c].gen
  PROVE  LET k == [g EXCEPT !.records[c] = s] IN
         /\ Frame(g, k, {"records"})
         /\ \A d \in Conn : d # c => k.records[d] = g.records[d]
         /\ k.records[c] = s /\ k.dev = g.dev
         /\ RecordOf(k, c) = s
<1>. DEFINE k == [g EXCEPT !.records[c] = s]
<1>1. k.records = [g.records EXCEPT ![c] = s]
  BY DEF State, Fields
<1>2. Frame(g, k, {"records"})
  BY DEF Frame, State, Fields
<1>. HIDE DEF k
<1>3. k.dev = g.dev
  BY <1>2 DEF Frame, Fields
<1>4. k.records[c] = s /\ \A d \in Conn : d # c => k.records[d] = g.records[d]
  BY <1>1 DEF State
<1>5. RecordOf(k, c) = s
  BY <1>3, <1>4 DEF RecordOf
<1>. QED BY <1>2, <1>3, <1>4, <1>5 DEF k

(* caps_record() adds capabilities and leaves the classification.          *)
LEMMA CapsRecordedDoes ==
  ASSUME NEW g, Shaped(g), NEW c \in Conn, Live(g, c),
         NEW keys \in BOOLEAN, NEW pointer \in BOOLEAN,
         keys => TypesKeys(TraitOf(g, c)), pointer => Points(TraitOf(g, c))
  PROVE  LET k == CapsRecorded(g, c, keys, pointer)
             r == RecordOf(g, c)
             s == RecordOf(k, c)
         IN  /\ Grown(g, k, c)
             /\ s.keys <=> r.keys \/ keys
             /\ s.pointer <=> r.pointer \/ pointer
             /\ s.primary = r.primary
<1>. DEFINE r == RecordOf(g, c)
            s == [r EXCEPT !.keys = @ \/ keys, !.pointer = @ \/ pointer]
            k == CapsRecorded(g, c, keys, pointer)
<1>1. IsRecord(r, g.dev[c]) /\ r.gen = g.dev[c].gen
  BY RecordOfIs
<1>2. k = [g EXCEPT !.records[c] = s]
  BY DEF CapsRecorded
<1>. HIDE DEF r
<1>3. DOMAIN r = {"gen", "keys", "pointer", "primary"} /\ r.keys \in BOOLEAN /\ r.pointer \in BOOLEAN
  BY <1>1 DEF IsRecord
<1>4. /\ DOMAIN s = {"gen", "keys", "pointer", "primary"} /\ s.gen = r.gen /\ s.primary = r.primary
      /\ s.keys \in BOOLEAN /\ s.pointer \in BOOLEAN
  BY <1>3
<1>5. s.keys = (r.keys \/ keys) /\ s.pointer = (r.pointer \/ pointer)
  BY <1>3, Zenon
<1>. HIDE DEF s, k
<1>6. IsRecord(s, g.dev[c])
  BY <1>1, <1>4, <1>5 DEF IsRecord, TraitOf
<1>7. State(g) /\ s.gen = g.dev[c].gen
  BY <1>1, <1>4 DEF Shaped
<1>8. /\ Frame(g, k, {"records"})
      /\ \A d \in Conn : d # c => k.records[d] = g.records[d]
      /\ k.records[c] = s /\ RecordOf(k, c) = s
  BY <1>2, <1>7, RecordSet
<1>9. Grown(g, k, c)
  BY <1>4, <1>5, <1>6, <1>7, <1>8 DEF Grown, r
<1>. QED BY <1>4, <1>5, <1>8, <1>9, Zenon DEF r, k

(* primary_record() sets a classification that was not made, and no other. *)
LEMMA PrimaryRecordedDoes ==
  ASSUME NEW g, Shaped(g), NEW c \in Conn, Live(g, c), NEW primary \in Primary,
         LET t == TraitOf(g, c) IN
         RecordOf(g, c).primary = "none" =>
           /\ primary \in {"keyboard", "combo"} => TypesKeys(t) /\ NotPad(t)
           /\ primary \in {"mouse", "combo"} => Points(t)
           /\ primary = "combo" => t.cod = "combo"
  PROVE  LET k == PrimaryRecorded(g, c, primary)
             r == RecordOf(g, c)
             s == RecordOf(k, c)
         IN  /\ Grown(g, k, c)
             /\ s.keys = r.keys /\ s.pointer = r.pointer
             /\ s.primary = IF r.primary = "none" THEN primary ELSE r.primary
<1>. DEFINE r == RecordOf(g, c)
            s == [r EXCEPT !.primary = primary]
            k == PrimaryRecorded(g, c, primary)
<1>1. IsRecord(r, g.dev[c]) /\ r.gen = g.dev[c].gen
  BY RecordOfIs
<1>2. k = IF r.primary = "none" THEN [g EXCEPT !.records[c] = s] ELSE g
  BY DEF PrimaryRecorded
<1>3. CASE r.primary # "none"
  BY <1>2, <1>3, GrownStays
<1>4. CASE r.primary = "none"
  <2>. HIDE DEF r
  <2>1. DOMAIN r = {"gen", "keys", "pointer", "primary"}
    BY <1>1 DEF IsRecord
  <2>2. /\ DOMAIN s = {"gen", "keys", "pointer", "primary"} /\ s.gen = r.gen /\ s.primary = primary
        /\ s.keys = r.keys /\ s.pointer = r.pointer
    BY <2>1
  <2>. HIDE DEF s
  <2>3. State(g) /\ s.gen = g.dev[c].gen
    BY <1>1, <2>2 DEF Shaped
  <2>4. IsRecord(s, g.dev[c])
    BY <1>1, <1>4, <2>2, <2>3 DEF IsRecord, TraitOf, r
  <2>5. k = [g EXCEPT !.records[c] = s]
    BY <1>2, <1>4
  <2>. HIDE DEF k
  <2>6. /\ Frame(g, k, {"records"})
        /\ \A d \in Conn : d # c => k.records[d] = g.records[d]
        /\ k.records[c] = s /\ RecordOf(k, c) = s
    BY <2>3, <2>5, RecordSet
  <2>7. Grown(g, k, c)
    BY <1>4, <2>2, <2>3, <2>4, <2>6 DEF Grown, r
  <2>. QED BY <1>4, <2>2, <2>6, <2>7 DEF r, k
<1>. QED BY <1>3, <1>4

-----------------------------------------------------------------------------
(* Classification: from a descriptor, from a driver, from a report.        *)

(* What is recorded of c is what its driver can have told.                 *)
Fits(g, c) ==
  LET r == RecordOf(g, c)
      driver == g.dev[c].driver
  IN  /\ r.keys => driver = "keyboard"
      /\ r.primary \in {"keyboard", "combo"} => driver = "keyboard"
      /\ driver = "gamepad" => r.primary = "none"

(* What the shape says of one live connection.                             *)
LEMMA DeviceOf ==
  ASSUME NEW g, Shaped(g), NEW c \in Conn, Live(g, c)
  PROVE  /\ g.dev[c].peer \in Peer /\ TraitOf(g, c) \in Trait
         /\ g.dev[c].driver \in {"keyboard", "mouse", "gamepad"}
         /\ g.dev[c].driver = "keyboard" => TypesKeys(TraitOf(g, c))
         /\ g.dev[c].driver = "mouse" => Points(TraitOf(g, c))
<1>1. IsDevice(g.dev[c])
  BY DEF Shaped
<1>. QED BY <1>1, TraitAssumption DEF IsDevice, TraitOf

(* A descriptor with keys classifies its device within what it can do.     *)
LEMMA ClassifiedDoes ==
  ASSUME NEW g, Shaped(g), NEW c \in Conn, Live(g, c), TraitOf(g, c).keys
  PROVE  LET k == Classified(g, c) IN
         /\ Grown(g, k, c)
         /\ g.dev[c].driver = "keyboard" => Fits(k, c)
<1>. DEFINE t == TraitOf(g, c)
            k == CapsRecorded(g, c, TRUE, t.pointer)
            p == PrimaryFromEvidence(TRUE, t.pointer, ~t.ble /\ t.cod = "combo", t.strong)
            l == PrimaryRecorded(k, c, p)
<1>1. t \in Trait
  BY DeviceOf
<1>. HIDE DEF t
<1>2. t.pointer \in BOOLEAN /\ TypesKeys(t) /\ (t.pointer => Points(t))
  BY <1>1 DEF Trait, TypesKeys, Points, t
<1>3. Grown(g, k, c)
  BY <1>2, CapsRecordedDoes DEF t
<1>. HIDE DEF k
<1>4. Shaped(k) /\ Live(k, c) /\ k.dev = g.dev
  BY <1>3, GrownShaped
<1>5. TraitOf(k, c) = t
  BY <1>4 DEF TraitOf, t
<1>6. /\ p \in Primary
      /\ p \in {"keyboard", "combo"} => TypesKeys(t) /\ NotPad(t)
      /\ p \in {"mouse", "combo"} => Points(t)
      /\ p = "combo" => t.cod = "combo"
      /\ p # "none"
  BY <1>1, <1>2 DEF PrimaryFromEvidence, PrimaryFromCaps, Primary, NotPad
<1>. HIDE DEF p
<1>7. /\ Grown(k, l, c)
      /\ RecordOf(l, c).primary = IF RecordOf(k, c).primary = "none" THEN p ELSE RecordOf(k, c).primary
  BY <1>4, <1>5, <1>6, PrimaryRecordedDoes
<1>8. Classified(g, c) = l
  BY DEF Classified, t, k, p
<1>. HIDE DEF l
<1>9. Grown(g, l, c)
  BY <1>3, <1>7, GrownGoesOn
<1>10. l.dev = g.dev
  BY <1>9, GrownShaped
<1>11. g.dev[c].driver = "keyboard" => Fits(l, c)
  BY <1>10 DEF Fits
<1>. QED BY <1>8, <1>9, <1>11

(* So does a driver; a mouse by its driver points and is classified.       *)
LEMMA CapsFromDriverDoes ==
  ASSUME NEW g, Shaped(g), NEW c \in Conn, Live(g, c)
  PROVE  LET k == CapsFromDriver(g, c)
             s == RecordOf(k, c)
         IN  /\ Grown(g, k, c)
             /\ Fits(g, c) => Fits(k, c)
             /\ g.dev[c].driver = "mouse" => s.pointer /\ s.primary # "none"
<1>. DEFINE t == TraitOf(g, c)
<1>1. /\ t \in Trait /\ g.dev[c].driver \in {"keyboard", "mouse", "gamepad"}
      /\ g.dev[c].driver = "keyboard" => TypesKeys(t)
      /\ g.dev[c].driver = "mouse" => Points(t)
  BY DeviceOf
<1>2. CASE g.dev[c].driver = "keyboard"
  <2>. DEFINE k == CapsRecorded(g, c, TRUE, FALSE)
              l == PrimaryRecorded(k, c, "keyboard")
  <2>1. Grown(g, k, c)
    BY <1>1, <1>2, CapsRecordedDoes
  <2>. HIDE DEF k
  <2>2. Shaped(k) /\ Live(k, c) /\ k.dev = g.dev
    BY <2>1, GrownShaped
  <2>3. TraitOf(k, c) = t
    BY <2>2 DEF TraitOf
  <2>4. ~t.ble => NotPad(t)
    BY DEF NotPad
  <2>5. "keyboard" \in Primary
    BY DEF Primary
  <2>. HIDE DEF t
  <2>6. ~t.ble => Grown(k, l, c)
    BY <1>1, <1>2, <2>2, <2>3, <2>4, <2>5, PrimaryRecordedDoes
  <2>7. ~t.ble => Grown(g, l, c)
    BY <2>1, <2>6, GrownGoesOn
  <2>8. CapsFromDriver(g, c) = IF t.ble THEN k ELSE l
    BY <1>2 DEF CapsFromDriver, k, t
  <2>. HIDE DEF l
  <2>9. Grown(g, CapsFromDriver(g, c), c)
    BY <2>1, <2>7, <2>8
  <2>10. CapsFromDriver(g, c).dev = g.dev
    BY <2>9, GrownShaped
  <2>. QED BY <1>2, <2>9, <2>10 DEF Fits
<1>3. CASE g.dev[c].driver = "mouse"
  <2>. DEFINE k == CapsRecorded(g, c, FALSE, TRUE)
              l == PrimaryRecorded(k, c, "mouse")
  <2>1. Grown(g, k, c) /\ RecordOf(k, c).pointer /\ RecordOf(k, c).keys = RecordOf(g, c).keys
        /\ RecordOf(k, c).primary = RecordOf(g, c).primary
    <3>1. /\ Grown(g, k, c)
          /\ RecordOf(k, c).keys <=> RecordOf(g, c).keys \/ FALSE
          /\ RecordOf(k, c).pointer <=> RecordOf(g, c).pointer \/ TRUE
          /\ RecordOf(k, c).primary = RecordOf(g, c).primary
      BY <1>1, <1>3, CapsRecordedDoes
    <3>2. RecordOf(g, c).keys \in BOOLEAN
      BY RecordOfIs DEF IsRecord
    <3>. HIDE DEF k
    <3>3. Shaped(k) /\ Live(k, c) /\ k.dev = g.dev
      BY <3>1, GrownShaped
    <3>4. RecordOf(k, c).keys \in BOOLEAN
      BY <3>3, RecordOfIs DEF IsRecord
    <3>. QED BY <3>1, <3>2, <3>4
  <2>. HIDE DEF k
  <2>2. Shaped(k) /\ Live(k, c) /\ k.dev = g.dev
    BY <2>1, GrownShaped
  <2>3. TraitOf(k, c) = t
    BY <2>2 DEF TraitOf
  <2>4. "mouse" \in Primary
    BY DEF Primary
  <2>. HIDE DEF t
  <2>5. /\ Grown(k, l, c)
        /\ RecordOf(l, c).pointer = RecordOf(k, c).pointer /\ RecordOf(l, c).keys = RecordOf(k, c).keys
        /\ RecordOf(l, c).primary = IF RecordOf(k, c).primary = "none" THEN "mouse" ELSE RecordOf(k, c).primary
    BY <1>1, <1>3, <2>2, <2>3, <2>4, PrimaryRecordedDoes
  <2>6. CapsFromDriver(g, c) = l
    BY <1>3 DEF CapsFromDriver, k
  <2>. HIDE DEF l
  <2>7. Grown(g, l, c)
    BY <2>1, <2>5, GrownGoesOn
  <2>8. l.dev = g.dev
    BY <2>7, GrownShaped
  <2>9. Fits(g, c) => Fits(l, c)
    BY <1>3, <2>1, <2>5, <2>8 DEF Fits
  <2>. QED BY <2>1, <2>5, <2>6, <2>7, <2>9
<1>4. CASE g.dev[c].driver = "gamepad"
  <2>1. CapsFromDriver(g, c) = g
    BY <1>4 DEF CapsFromDriver
  <2>. QED BY <1>4, <2>1, GrownStays
<1>. QED BY <1>1, <1>2, <1>3, <1>4

(* So does a report of the driver's own kind.                              *)
LEMMA ConsideredDoes ==
  ASSUME NEW g, Shaped(g), NEW c \in Conn, Live(g, c),
         NEW role \in {"keyboard", "mouse"}, Reports(g, c, role)
  PROVE  LET k == Considered(g, c, role) IN
         /\ Grown(g, k, c)
         /\ Fits(g, c) => Fits(k, c)
<1>. DEFINE t == TraitOf(g, c)
            k == CapsRecorded(g, c, role = "keyboard", role = "mouse")
            r == RecordOf(k, c)
            p == PrimaryFromCaps(r.keys, r.pointer)
            l == PrimaryRecorded(k, c, p)
<1>1. /\ t \in Trait /\ g.dev[c].driver \in {"keyboard", "mouse", "gamepad"}
      /\ g.dev[c].driver = "keyboard" => TypesKeys(t)
      /\ g.dev[c].driver = "mouse" => Points(t)
  BY DeviceOf
<1>2. (role = "keyboard" => TypesKeys(t)) /\ (role = "mouse" => Points(t))
  BY <1>1 DEF Reports, Points
<1>3. /\ Grown(g, k, c)
      /\ r.keys <=> RecordOf(g, c).keys \/ role = "keyboard"
      /\ r.pointer <=> RecordOf(g, c).pointer \/ role = "mouse"
      /\ r.primary = RecordOf(g, c).primary
  <2>1. (role = "keyboard") \in BOOLEAN /\ (role = "mouse") \in BOOLEAN
    OBVIOUS
  <2>. QED BY <1>2, <2>1, CapsRecordedDoes
<1>4. Considered(g, c, role) =
        IF r.primary # "none" THEN k
        ELSE IF TraitOf(k, c).ble /\ k.dev[c].driver = "keyboard" THEN k ELSE l
  BY DEF Considered
<1>. HIDE DEF k
<1>5. Shaped(k) /\ Live(k, c) /\ k.dev = g.dev
  BY <1>3, GrownShaped
<1>6. TraitOf(k, c) = t
  BY <1>5 DEF TraitOf
<1>7. IsRecord(r, g.dev[c])
  BY <1>5, RecordOfIs
<1>8. r.keys \in BOOLEAN /\ r.pointer \in BOOLEAN /\ (r.keys => TypesKeys(t)) /\ (r.pointer => Points(t))
  BY <1>7 DEF IsRecord, TraitOf
<1>. HIDE DEF r
<1>9. p \in Primary /\ (p = "mouse" => r.pointer) /\ (p = "keyboard" => r.keys /\ ~r.pointer) /\ p # "combo"
  BY <1>8 DEF PrimaryFromCaps, Primary
<1>10. role = "keyboard" => g.dev[c].driver = "keyboard"
  BY DEF Reports
<1>11. Fits(g, c) => Fits(k, c)
  <2>1. SUFFICES ASSUME Fits(g, c)
                 PROVE  Fits(k, c)
    OBVIOUS
  <2>2. r.keys => RecordOf(g, c).keys \/ role = "keyboard"
    BY <1>3, <1>8, Zenon
  <2>3. g.dev[c].driver = "gamepad" => RecordOf(g, c).primary = "none"
    BY <2>1 DEF Fits
  <2>. QED BY <1>3, <1>5, <1>10, <2>1, <2>2, <2>3 DEF Fits, r
<1>12. CASE r.primary # "none" \/ (t.ble /\ g.dev[c].driver = "keyboard")
  BY <1>3, <1>4, <1>5, <1>6, <1>11, <1>12
<1>13. CASE r.primary = "none" /\ ~(t.ble /\ g.dev[c].driver = "keyboard")
  <2>1. p = "keyboard" => NotPad(t)
    <3>1. SUFFICES ASSUME p = "keyboard" PROVE NotPad(t)
      OBVIOUS
    <3>2. role # "mouse"
      BY <1>3, <1>8, <1>9, <3>1, Zenon
    <3>. QED BY <1>10, <1>13, <3>2 DEF NotPad
  <2>2. /\ Grown(k, l, c) /\ RecordOf(l, c).keys = r.keys
        /\ RecordOf(l, c).primary = IF r.primary = "none" THEN p ELSE r.primary
    <3>1. p \in {"keyboard", "combo"} => TypesKeys(t) /\ NotPad(t)
      BY <1>8, <1>9, <2>1
    <3>2. p \in {"mouse", "combo"} => Points(t)
      BY <1>8, <1>9
    <3>3. p = "combo" => t.cod = "combo"
      BY <1>9
    <3>. HIDE DEF p
    <3>. QED BY <1>5, <1>6, <1>9, <3>1, <3>2, <3>3, PrimaryRecordedDoes DEF r
  <2>3. Considered(g, c, role) = l
    BY <1>4, <1>5, <1>6, <1>13
  <2>. HIDE DEF l, p
  <2>4. Grown(g, l, c)
    BY <1>3, <2>2, GrownGoesOn
  <2>5. l.dev = g.dev
    BY <2>4, GrownShaped
  <2>6. g.dev[c].driver # "gamepad"
    BY DEF Reports
  <2>7. Fits(g, c) => Fits(l, c)
    BY <1>5, <1>9, <1>11, <1>13, <2>2, <2>5, <2>6 DEF Fits, r
  <2>. QED BY <2>3, <2>4, <2>7
<1>. QED BY <1>12, <1>13

-----------------------------------------------------------------------------
(* Roles and their admission.                                              *)

(* A role held by a live connection; the roles and what their records say; *)
(* h as a whole; the mode's say over roles.                                *)
HoldsRole(g, role) == role.conn \in Conn /\ Live(g, role.conn) /\ role = KeyOf(g, role.conn)
RolesHeld(g) ==
  /\ g.kb = NoRole \/ /\ HoldsRole(g, g.kb)
                      /\ g.records[g.kb.conn].keys
                      /\ g.records[g.kb.conn].primary \in {"keyboard", "combo"}
  /\ g.ms = NoRole \/ /\ HoldsRole(g, g.ms)
                      /\ g.records[g.ms.conn].pointer
                      /\ g.records[g.ms.conn].primary \in {"mouse", "combo"}
Sound(g) == Shaped(g) /\ RolesHeld(g)
Obeys(g) ==
  /\ shared.mode = "controller" => g.kb = NoRole
  /\ shared.mode \in {"controller", "keyboard"} => g.ms = NoRole

(* A role of a connection is not the vacant role, and names it.            *)
LEMMA RoleIsSomebody ==
  ASSUME NEW g, NEW c \in Conn
  PROVE  KeyOf(g, c) # NoRole /\ KeyOf(g, c).conn = c
BY KBoundAssumption DEF KeyOf, NoRole, Nobody, Conn

(* Soundness rests on devices, records and roles only.                     *)
LEMMA SoundStays ==
  ASSUME NEW g, NEW k, Sound(g), State(k), k.dev = g.dev, k.records = g.records,
         k.kb = g.kb, k.ms = g.ms, k.next = g.next
  PROVE  Sound(k)
BY DEF Sound, Shaped, RolesHeld, HoldsRole, Live, KeyOf

(* A grown record keeps h sound and the roles as they are.                 *)
LEMMA GrownSound ==
  ASSUME NEW g, NEW k, Sound(g), NEW c \in Conn, Live(g, c), Grown(g, k, c)
  PROVE  Sound(k) /\ k.kb = g.kb /\ k.ms = g.ms
<1>1. Shaped(k) /\ k.dev = g.dev
  BY GrownShaped DEF Sound
<1>2. k.kb = g.kb /\ k.ms = g.ms
  BY DEF Grown, Frame, Fields
<1>3. \A d \in Conn : d # c => k.records[d] = g.records[d]
  BY DEF Grown
<1>4. IsRecord(g.records[c], g.dev[c]) /\ IsDevice(g.dev[c])
  BY DEF Sound, Shaped
<1>5. /\ g.records[c].pointer => k.records[c].pointer
      /\ g.records[c].keys => k.records[c].keys
      /\ g.records[c].keys \/ g.records[c].pointer =>
            k.records[c].primary = g.records[c].primary \/ g.records[c].primary = "none"
  <2>1. SUFFICES ASSUME g.records[c].keys \/ g.records[c].pointer
                 PROVE  /\ g.records[c].pointer => k.records[c].pointer
                        /\ g.records[c].keys => k.records[c].keys
                        /\ k.records[c].primary = g.records[c].primary \/ g.records[c].primary = "none"
    OBVIOUS
  <2>2. g.records[c].gen = g.dev[c].gen /\ RecordOf(g, c) = g.records[c]
    <3>1. g.records[c] # NoRecord
      BY <2>1 DEF NoRecord
    <3>. QED BY <1>4, <3>1 DEF IsRecord, RecordOf
  <2>3. k.records[c].gen = g.dev[c].gen
    BY <2>2 DEF Grown
  <2>4. RecordOf(k, c) = k.records[c]
    BY <1>1, <2>3 DEF RecordOf
  <2>. QED BY <2>2, <2>4 DEF Grown
<1>6. RolesHeld(k)
  <2>1. g.kb # NoRole => /\ HoldsRole(k, k.kb) /\ k.records[k.kb.conn].keys
                         /\ k.records[k.kb.conn].primary \in {"keyboard", "combo"}
    BY <1>1, <1>2, <1>3, <1>5 DEF Sound, RolesHeld, HoldsRole, Live, KeyOf
  <2>2. g.ms # NoRole => /\ HoldsRole(k, k.ms) /\ k.records[k.ms.conn].pointer
                         /\ k.records[k.ms.conn].primary \in {"mouse", "combo"}
    BY <1>1, <1>2, <1>3, <1>5 DEF Sound, RolesHeld, HoldsRole, Live, KeyOf
  <2>. QED BY <1>2, <2>1, <2>2 DEF RolesHeld
<1>. QED BY <1>1, <1>2, <1>6 DEF Sound

(* A role is taken where the mode allows it, it is vacant or one's own,    *)
(* and the record stands for it.                                           *)
LEMMA TakesTells ==
  ASSUME NEW g, NEW c \in Conn
  PROVE  LET r == RecordOf(g, c) IN
         /\ Takes(g, c).keyboard =>
              /\ shared.mode # "controller" /\ g.kb \in {NoRole, KeyOf(g, c)}
              /\ g.kb = KeyOf(g, c) \/ (r.keys /\ r.primary \in {"keyboard", "combo"})
         /\ Takes(g, c).mouse =>
              /\ shared.mode \notin {"controller", "keyboard"} /\ g.ms \in {NoRole, KeyOf(g, c)}
              /\ g.ms = KeyOf(g, c) \/ (r.pointer /\ r.primary \in {"mouse", "combo"})
BY DEF Takes, Policy

(* ns2_kbm_roles_admit() writes the roles.                                 *)
LEMMA AdmittedDoes ==
  ASSUME NEW g, State(g), NEW c \in Conn
  PROVE  LET k == Admitted(g, c) IN
         /\ Frame(g, k, {"kb", "ms"})
         /\ k.kb = IF Takes(g, c).keyboard THEN KeyOf(g, c) ELSE g.kb
         /\ k.ms = IF Takes(g, c).mouse THEN KeyOf(g, c) ELSE g.ms
<1>. DEFINE kb == IF Takes(g, c).keyboard THEN KeyOf(g, c) ELSE g.kb
            ms == IF Takes(g, c).mouse THEN KeyOf(g, c) ELSE g.ms
            k == [g EXCEPT !.kb = kb, !.ms = ms]
<1>1. Admitted(g, c) = k
  BY DEF Admitted
<1>. HIDE DEF kb, ms
<1>2. Frame(g, k, {"kb", "ms"}) /\ k.kb = kb /\ k.ms = ms
  BY DEF Frame, State, Fields
<1>. QED BY <1>1, <1>2 DEF kb, ms

(* Admission keeps h sound and obedient, and takes no role from its        *)
(* holder.                                                                 *)
LEMMA AdmittedSound ==
  ASSUME NEW g, Sound(g), NEW c \in Conn, Live(g, c)
  PROVE  LET k == Admitted(g, c) IN
         /\ Sound(k) /\ (Obeys(g) => Obeys(k))
         /\ g.kb # NoRole => k.kb = g.kb
         /\ g.ms # NoRole => k.ms = g.ms
<1>. DEFINE k == Admitted(g, c)
            r == RecordOf(g, c)
<1>1. State(g) /\ Shaped(g) /\ RolesHeld(g)
  BY DEF Sound, Shaped
<1>2. /\ Frame(g, k, {"kb", "ms"})
      /\ k.kb = IF Takes(g, c).keyboard THEN KeyOf(g, c) ELSE g.kb
      /\ k.ms = IF Takes(g, c).mouse THEN KeyOf(g, c) ELSE g.ms
  BY <1>1, AdmittedDoes
<1>. HIDE DEF k
<1>3. State(k) /\ k.dev = g.dev /\ k.records = g.records /\ k.next = g.next
  BY <1>2 DEF Frame, Fields
<1>4. r.keys \/ r.pointer => r = g.records[c]
  BY <1>1, RecordOfIs
<1>. HIDE DEF r
<1>5. /\ Takes(g, c).keyboard =>
           /\ shared.mode # "controller" /\ g.kb \in {NoRole, KeyOf(g, c)}
           /\ g.kb = KeyOf(g, c) \/ (r.keys /\ r.primary \in {"keyboard", "combo"})
      /\ Takes(g, c).mouse =>
           /\ shared.mode \notin {"controller", "keyboard"} /\ g.ms \in {NoRole, KeyOf(g, c)}
           /\ g.ms = KeyOf(g, c) \/ (r.pointer /\ r.primary \in {"mouse", "combo"})
  BY TakesTells DEF r
<1>6. HoldsRole(g, KeyOf(g, c)) /\ KeyOf(g, c).conn = c /\ KeyOf(g, c) # NoRole
  BY RoleIsSomebody DEF HoldsRole
<1>7. Shaped(k)
  BY <1>1, <1>3 DEF Shaped, Live
<1>8. \A role : HoldsRole(g, role) => HoldsRole(k, role)
  BY <1>3 DEF HoldsRole, Live, KeyOf
<1>9. k.kb = NoRole \/ /\ HoldsRole(k, k.kb) /\ k.records[k.kb.conn].keys
                       /\ k.records[k.kb.conn].primary \in {"keyboard", "combo"}
  BY <1>1, <1>2, <1>3, <1>4, <1>5, <1>6, <1>8 DEF RolesHeld
<1>10. k.ms = NoRole \/ /\ HoldsRole(k, k.ms) /\ k.records[k.ms.conn].pointer
                        /\ k.records[k.ms.conn].primary \in {"mouse", "combo"}
  BY <1>1, <1>2, <1>3, <1>4, <1>5, <1>6, <1>8 DEF RolesHeld
<1>11. Obeys(g) => Obeys(k)
  BY <1>2, <1>5 DEF Obeys
<1>12. (g.kb # NoRole => k.kb = g.kb) /\ (g.ms # NoRole => k.ms = g.ms)
  BY <1>2, <1>5
<1>. QED BY <1>7, <1>9, <1>10, <1>11, <1>12 DEF Sound, RolesHeld, k

(* ns2_kbm_runtime_note_ready() keeps h sound and obedient.                *)
LEMMA NotedReadyDoes ==
  ASSUME NEW g, Sound(g), NEW c \in Conn, Live(g, c)
  PROVE  LET k == NotedReady(g, c) IN
         /\ Frame(g, k, {"records", "kb", "ms"})
         /\ Sound(k) /\ (Obeys(g) => Obeys(k))
         /\ g.kb # NoRole => k.kb = g.kb
         /\ g.ms # NoRole => k.ms = g.ms
         /\ \A d \in Conn : d # c => k.records[d] = g.records[d]
         /\ Fits(g, c) => Fits(k, c)
         /\ k = CapsFromDriver(g, c) \/ k = Admitted(CapsFromDriver(g, c), c)
<1>. DEFINE k == CapsFromDriver(g, c)
            a == Admitted(k, c)
            n == NotedReady(g, c)
<1>0. Shaped(g)
  BY DEF Sound
<1>1. Grown(g, k, c) /\ (Fits(g, c) => Fits(k, c))
  BY <1>0, CapsFromDriverDoes
<1>2. n = k \/ n = a
  BY DEF NotedReady, Offered
<1>. HIDE DEF k, n
<1>3. Sound(k) /\ k.kb = g.kb /\ k.ms = g.ms /\ Live(k, c) /\ k.dev = g.dev
  BY <1>0, <1>1, GrownSound, GrownShaped
<1>4. /\ Frame(g, k, {"records"}) /\ \A d \in Conn : d # c => k.records[d] = g.records[d]
  BY <1>1 DEF Grown
<1>5. Obeys(g) => Obeys(k)
  BY <1>3 DEF Obeys
<1>6. /\ Sound(a) /\ (Obeys(k) => Obeys(a)) /\ Frame(k, a, {"kb", "ms"})
      /\ (k.kb # NoRole => a.kb = k.kb) /\ (k.ms # NoRole => a.ms = k.ms)
  <2>1. State(k)
    BY <1>4, FrameStates
  <2>. QED BY <1>3, <2>1, AdmittedSound, AdmittedDoes
<1>. HIDE DEF a
<1>7. a.records = k.records /\ a.dev = k.dev
  BY <1>6 DEF Frame, Fields
<1>8. Frame(g, a, {"records", "kb", "ms"}) /\ Frame(g, k, {"records", "kb", "ms"})
  BY <1>4, <1>6 DEF Frame
<1>9. Fits(g, c) => Fits(a, c)
  BY <1>1, <1>7 DEF Fits, RecordOf
<1>. QED BY <1>1, <1>2, <1>3, <1>4, <1>5, <1>6, <1>7, <1>8, <1>9 DEF n, a, k

(* ns2_active_input_note_connection() after the mode change: so does       *)
(* registering the source.                                                 *)
LEMMA NotedDoes ==
  ASSUME NEW g, Sound(g), NEW c \in Conn, Live(g, c)
  PROVE  LET k == NotedReady(g, c)
             n == Noted(g, c)
         IN  /\ Frame(k, n, {"sources", "owner"})
             /\ Frame(g, n, {"records", "kb", "ms", "sources", "owner"})
             /\ Sound(n) /\ (Obeys(g) => Obeys(n))
             /\ n.records = k.records /\ n.kb = k.kb /\ n.ms = k.ms
<1>. DEFINE k == NotedReady(g, c)
            n == Noted(g, c)
            e == Enrolled(k, c, "unknown", FALSE)
<1>1. Frame(g, k, {"records", "kb", "ms"}) /\ Sound(k) /\ (Obeys(g) => Obeys(k))
  BY NotedReadyDoes
<1>2. n = k \/ n = OwnerSettled(e)
  BY DEF Noted, Registered
<1>. HIDE DEF k, n
<1>3. State(k)
  BY <1>1, FrameStates
<1>4. Frame(k, e, {"sources"})
  BY <1>3, EnrolledDoes
<1>. HIDE DEF e
<1>5. Frame(e, OwnerSettled(e), {"owner"})
  BY <1>4, FrameStates, OwnerSettledDoes
<1>6. Frame(k, OwnerSettled(e), {"sources", "owner"})
  BY <1>4, <1>5 DEF Frame
<1>7. Frame(k, n, {"sources", "owner"})
  BY <1>2, <1>3, <1>6, FrameStays
<1>8. Frame(g, n, {"records", "kb", "ms", "sources", "owner"})
  BY <1>1, <1>7 DEF Frame
<1>9. State(n) /\ n.dev = k.dev /\ n.records = k.records /\ n.kb = k.kb /\ n.ms = k.ms /\ n.next = k.next
  BY <1>7 DEF Frame, Fields
<1>10. Sound(n)
  BY <1>1, <1>9, SoundStays
<1>11. Obeys(k) => Obeys(n)
  BY <1>9 DEF Obeys
<1>. QED BY <1>1, <1>7, <1>8, <1>9, <1>10, <1>11 DEF k, n

-----------------------------------------------------------------------------
(* A mode change applied by core 1, and a connection looked at.            *)

(* An emptied registry.                                                    *)
LEMMA EmptiedDoes ==
  ASSUME NEW g, State(g)
  PROVE  LET k == Emptied(g) IN
         /\ Frame(g, k, {"sources", "owner", "console"})
         /\ k.sources = [c \in Conn |-> NoSource] /\ k.owner = Nobody /\ k.console = Neutral
<1>. DEFINE e == [g EXCEPT !.sources = [c \in Conn |-> NoSource], !.owner = Nobody]
<1>1. Frame(g, e, {"sources", "owner"}) /\ e.sources = [c \in Conn |-> NoSource] /\ e.owner = Nobody
  BY DEF Frame, State, Fields
<1>2. Emptied(g) = Silenced(e)
  BY DEF Emptied
<1>. HIDE DEF e
<1>3. Frame(e, Silenced(e), {"console"}) /\ Silenced(e).console = Neutral
  BY <1>1, FrameStates, SilencedDoes
<1>4. Frame(g, Silenced(e), {"sources", "owner", "console"})
  BY <1>1, <1>3 DEF Frame
<1>5. Silenced(e).sources = e.sources /\ Silenced(e).owner = e.owner
  BY <1>3 DEF Frame, Fields
<1>. QED BY <1>1, <1>2, <1>3, <1>4, <1>5

(* A rebuilt registry keeps h sound and obedient.                          *)
LEMMA RebuiltDoes ==
  ASSUME NEW g, Sound(g), Obeys(g)
  PROVE  LET k == Rebuilt(g) IN
         /\ Frame(g, k, {"records", "kb", "ms", "sources", "owner", "console"})
         /\ Sound(k) /\ Obeys(k)
<1>. DEFINE F == {"records", "kb", "ms", "sources", "owner", "console"}
<1>0. MaxConn \in Nat
  BY KBoundAssumption
<1>1. PICK f : /\ f[0] = Emptied(g)
               /\ Rebuilt(g) = f[MaxConn]
               /\ \A n \in Nat : n < MaxConn =>
                    f[n + 1] = IF Live(f[n], n + 1) THEN Noted(f[n], n + 1) ELSE f[n]
  BY RebuiltInTurn
<1>. DEFINE P(k) == Frame(g, k, F) /\ Sound(k) /\ Obeys(k)
            A == {n \in Nat : n <= MaxConn => P(f[n])}
<1>2. P(f[0])
  <2>. DEFINE e == Emptied(g)
  <2>1. State(g)
    BY DEF Sound, Shaped
  <2>2. Frame(g, e, {"sources", "owner", "console"})
    BY <2>1, EmptiedDoes
  <2>. HIDE DEF e
  <2>3. /\ State(e) /\ e.dev = g.dev /\ e.records = g.records
        /\ e.kb = g.kb /\ e.ms = g.ms /\ e.next = g.next
    BY <2>2 DEF Frame, Fields
  <2>4. Sound(e) /\ Obeys(e)
    BY <2>3, SoundStays DEF Obeys
  <2>5. Frame(g, e, F)
    BY <2>2, FrameWidens
  <2>. QED BY <1>1, <2>4, <2>5 DEF e
<1>3. ASSUME NEW n \in Nat, n \in A
      PROVE  n + 1 \in A
  <2>. SUFFICES ASSUME n + 1 <= MaxConn
                PROVE  P(f[n + 1])
    OBVIOUS
  <2>1. P(f[n]) /\ n < MaxConn /\ n + 1 \in Conn
    BY <1>0, <1>3 DEF Conn
  <2>. HIDE DEF A
  <2>2. CASE ~Live(f[n], n + 1)
    <3>1. f[n + 1] = f[n]
      BY <1>1, <2>1, <2>2
    <3>. QED BY <2>1, <3>1
  <2>3. CASE Live(f[n], n + 1)
    <3>1. f[n + 1] = Noted(f[n], n + 1)
      BY <1>1, <2>1, <2>3
    <3>. DEFINE k == f[n]
                l == Noted(k, n + 1)
    <3>. HIDE DEF k
    <3>2. Frame(k, l, {"records", "kb", "ms", "sources", "owner"}) /\ Sound(l) /\ Obeys(l)
      BY <2>1, <2>3, NotedDoes DEF k
    <3>. HIDE DEF l
    <3>3. Frame(g, l, F)
      BY <2>1, <3>2 DEF Frame, k
    <3>. QED BY <3>1, <3>2, <3>3 DEF l, k
  <2>. QED BY <2>2, <2>3
<1>4. Nat \subseteq A
  <2>1. 0 \in A
    BY <1>2
  <2>. HIDE DEF A
  <2>. QED BY <1>3, <2>1, Climb
<1>. QED BY <1>0, <1>1, <1>4

(* What apply_pending_mode_change() hands to the rebuilding.               *)
Reset(g) ==
  MouseDropped(KeysDropped(
    [g EXCEPT !.applied = shared.req, !.kb = NoRole, !.ms = NoRole, !.adopted = 0]))

(* What apply_pending_mode_change() clears before it rebuilds.             *)
LEMMA ResetDoes ==
  ASSUME NEW g, Sound(g)
  PROVE  LET k == Reset(g) IN
         /\ Frame(g, k, {"applied", "kb", "ms", "adopted", "keys", "buttons", "motion"})
         /\ k.kb = NoRole /\ k.ms = NoRole /\ k.adopted = 0 /\ k.applied = shared.req
         /\ k.keys = FALSE /\ k.buttons = FALSE
         /\ Sound(k) /\ Obeys(k)
<1>. DEFINE j == [g EXCEPT !.applied = shared.req, !.kb = NoRole, !.ms = NoRole, !.adopted = 0]
            k == Reset(g)
<1>0. State(g) /\ Shaped(g)
  BY DEF Sound, Shaped
<1>1. /\ Frame(g, j, {"applied", "kb", "ms", "adopted"})
      /\ j.kb = NoRole /\ j.ms = NoRole /\ j.adopted = 0 /\ j.applied = shared.req
  BY <1>0 DEF Frame, State, Fields
<1>2. k = MouseDropped(KeysDropped(j))
  BY DEF Reset
<1>. HIDE DEF j
<1>3. Frame(j, k, {"keys", "buttons", "motion"}) /\ k.keys = FALSE /\ k.buttons = FALSE
  BY <1>1, <1>2, FrameStates, BothDropped
<1>. HIDE DEF k
<1>4. Frame(g, k, {"applied", "kb", "ms", "adopted", "keys", "buttons", "motion"})
  BY <1>1, <1>3 DEF Frame
<1>5. k.kb = j.kb /\ k.ms = j.ms /\ k.adopted = j.adopted /\ k.applied = j.applied
  BY <1>3 DEF Frame, Fields
<1>6. State(k) /\ k.dev = g.dev /\ k.records = g.records /\ k.next = g.next
  BY <1>4 DEF Frame, Fields
<1>7. Shaped(k)
  BY <1>0, <1>6 DEF Shaped, Live
<1>. QED BY <1>1, <1>3, <1>4, <1>5, <1>7 DEF Sound, RolesHeld, Obeys, k

(* The fields a mode change and a look at a connection may write.          *)
Late == {"records", "kb", "ms", "sources", "owner", "console", "applied", "adopted",
         "keys", "buttons", "motion"}

(* apply_pending_mode_change() does nothing, or leaves h obedient.         *)
LEMMA ModeAppliedDoes ==
  ASSUME NEW g, Sound(g)
  PROVE  LET k == ModeApplied(g) IN
         /\ Frame(g, k, Late)
         /\ Sound(k) /\ k.applied = shared.req
         /\ \/ k = g /\ g.applied = shared.req
            \/ k = Rebuilt(Reset(g)) /\ g.applied # shared.req /\ Obeys(k)
<1>1. CASE g.applied = shared.req
  <2>1. ModeApplied(g) = g
    BY <1>1 DEF ModeApplied
  <2>2. State(g)
    BY DEF Sound, Shaped
  <2>. QED BY <1>1, <2>1, <2>2, FrameStays
<1>2. CASE g.applied # shared.req
  <2>. DEFINE j == Reset(g)
              k == Rebuilt(j)
  <2>1. ModeApplied(g) = k
    BY <1>2 DEF ModeApplied, Reset
  <2>2. /\ Frame(g, j, {"applied", "kb", "ms", "adopted", "keys", "buttons", "motion"})
        /\ j.applied = shared.req /\ Sound(j) /\ Obeys(j)
    BY ResetDoes
  <2>. HIDE DEF j
  <2>3. /\ Frame(j, k, {"records", "kb", "ms", "sources", "owner", "console"})
        /\ Sound(k) /\ Obeys(k)
    BY <2>2, RebuiltDoes
  <2>. HIDE DEF k
  <2>4. Frame(g, k, Late)
    BY <2>2, <2>3 DEF Frame, Late
  <2>5. k.applied = j.applied
    BY <2>3 DEF Frame, Fields
  <2>. QED BY <1>2, <2>1, <2>2, <2>3, <2>4, <2>5 DEF k, j
<1>. QED BY <1>1, <1>2

(* A connection looked at leaves the mode applied and h sound; obedient,   *)
(* if it was or the mode had to be applied.                                *)
LEMMA NoteConnectionDoes ==
  ASSUME NEW g, Sound(g), NEW c \in Conn, Live(g, c)
  PROVE  LET m == ModeApplied(g)
             k == NoteConnection(g, c)
         IN  /\ Sound(m) /\ Live(m, c) /\ m.dev = g.dev /\ k = Noted(m, c)
             /\ Frame(g, k, Late)
             /\ Sound(k) /\ k.applied = shared.req
             /\ g.applied # shared.req \/ Obeys(g) => Obeys(k)
<1>. DEFINE m == ModeApplied(g)
            k == Noted(m, c)
<1>1. /\ Frame(g, m, Late) /\ Sound(m) /\ m.applied = shared.req
      /\ g.applied # shared.req \/ Obeys(g) => Obeys(m)
  BY ModeAppliedDoes
<1>. HIDE DEF m
<1>2. m.dev = g.dev
  BY <1>1 DEF Frame, Fields, Late
<1>3. Live(m, c)
  BY <1>2 DEF Live
<1>4. Frame(m, k, {"records", "kb", "ms", "sources", "owner"}) /\ Sound(k) /\ (Obeys(m) => Obeys(k))
  BY <1>1, <1>3, NotedDoes
<1>5. NoteConnection(g, c) = k
  BY DEF NoteConnection, m
<1>. HIDE DEF k
<1>6. Frame(g, k, Late)
  BY <1>1, <1>4 DEF Frame, Late
<1>7. k.applied = m.applied
  BY <1>4 DEF Frame, Fields
<1>. QED BY <1>1, <1>2, <1>3, <1>4, <1>5, <1>6, <1>7 DEF m, k

-----------------------------------------------------------------------------
(* Driver binding.                                                         *)

(* The applied mode is obeyed.                                             *)
Heeds(g) == g.applied # shared.req \/ Obeys(g)

(* k is g after some of the binding of the peer behind c.                  *)
Binds(g, k, c) ==
  /\ Sound(k) /\ Live(k, c)
  /\ Frame(g, k, Late \cup {"dev", "cached"})
  /\ \A d \in Conn : d # c => k.dev[d] = g.dev[d]
  /\ k.dev[c].peer = g.dev[c].peer /\ k.dev[c].gen = g.dev[c].gen
  /\ k.applied \in {g.applied, shared.req}
  /\ Heeds(g) => Heeds(k)

(* No binding at all.                                                      *)
LEMMA BindsStays ==
  ASSUME NEW g, Sound(g), NEW c \in Conn, Live(g, c)
  PROVE  Binds(g, g, c)
<1>1. State(g)
  BY DEF Sound, Shaped
<1>. QED BY <1>1, FrameStays DEF Binds

(* Two bindings in a row.                                                  *)
LEMMA BindsGoesOn ==
  ASSUME NEW g, NEW k, NEW l, NEW c \in Conn, Binds(g, k, c), Binds(k, l, c)
  PROVE  Binds(g, l, c)
<1>1. Frame(g, l, Late \cup {"dev", "cached"})
  BY DEF Binds, Frame
<1>. QED BY <1>1 DEF Binds

(* Another driver, one the peer justifies.                                 *)
LEMMA ReboundDoes ==
  ASSUME NEW g, Sound(g), NEW c \in Conn, Live(g, c),
         NEW driver \in {"keyboard", "mouse", "gamepad"},
         driver = "keyboard" => TypesKeys(TraitOf(g, c)),
         driver = "mouse" => Points(TraitOf(g, c))
  PROVE  LET k == Rebound(g, c, driver) IN
         /\ Frame(g, k, {"dev"})
         /\ Binds(g, k, c) /\ k.dev[c].driver = driver
<1>. DEFINE d == [g.dev[c] EXCEPT !.driver = driver, !.mapped = FALSE]
            k == Rebound(g, c, driver)
<1>0. Shaped(g) /\ State(g) /\ RolesHeld(g) /\ IsDevice(g.dev[c])
  BY DEF Sound, Shaped
<1>1. DOMAIN g.dev[c] = {"peer", "gen", "mapped", "driver"}
  BY <1>0 DEF IsDevice
<1>2. /\ DOMAIN d = {"peer", "gen", "mapped", "driver"}
      /\ d.peer = g.dev[c].peer /\ d.gen = g.dev[c].gen /\ d.driver = driver
  BY <1>1
<1>3. k.dev = [g.dev EXCEPT ![c] = d]
  BY <1>0, <1>1 DEF Rebound, State, Fields
<1>4. Frame(g, k, {"dev"})
  BY <1>0 DEF Rebound, Frame, State, Fields
<1>. HIDE DEF d, k
<1>5. k.dev[c] = d /\ \A e \in Conn : e # c => k.dev[e] = g.dev[e]
  BY <1>0, <1>3 DEF State
<1>6. d # NoDevice /\ IsDevice(d)
  BY <1>0, <1>2 DEF IsDevice, NoDevice, TraitOf
<1>7. /\ State(k) /\ k.records = g.records /\ k.kb = g.kb /\ k.ms = g.ms /\ k.next = g.next
      /\ k.applied = g.applied
  BY <1>4 DEF Frame, Fields
<1>8. \A e \in Conn : Live(k, e) <=> Live(g, e)
  BY <1>5, <1>6 DEF Live
<1>9. Shaped(k)
  <2>1. IsRecord(g.records[c], d)
    BY <1>0, <1>2 DEF Shaped, IsRecord
  <2>2. ASSUME NEW e \in Conn
        PROVE  IF Live(k, e) THEN IsDevice(k.dev[e]) /\ IsRecord(k.records[e], k.dev[e])
               ELSE k.records[e] = NoRecord
    BY <1>0, <1>5, <1>6, <1>7, <1>8, <2>1 DEF Shaped
  <2>. QED BY <1>0, <1>7, <2>2 DEF Shaped
<1>10. RolesHeld(k)
  <2>1. \A e \in Conn : KeyOf(k, e) = KeyOf(g, e)
    BY <1>2, <1>5 DEF KeyOf
  <2>. QED BY <1>0, <1>7, <1>8, <2>1 DEF RolesHeld, HoldsRole
<1>11. Frame(g, k, Late \cup {"dev", "cached"})
  BY <1>4, FrameWidens
<1>12. Heeds(g) => Heeds(k)
  BY <1>7 DEF Heeds, Obeys
<1>13. Live(k, c)
  BY <1>8
<1>. QED BY <1>2, <1>4, <1>5, <1>7, <1>9, <1>10, <1>11, <1>12, <1>13 DEF Binds, Sound, k

(* The descriptor is given to the driver.                                  *)
LEMMA MappedDoes ==
  ASSUME NEW g, Sound(g), NEW c \in Conn, Live(g, c)
  PROVE  LET k == Mapped(g, c) IN
         /\ Frame(g, k, {"dev"})
         /\ Binds(g, k, c) /\ k.dev[c].driver = g.dev[c].driver
<1>. DEFINE d == [g.dev[c] EXCEPT !.mapped = TRUE]
            k == Mapped(g, c)
<1>0. Shaped(g) /\ State(g) /\ RolesHeld(g) /\ IsDevice(g.dev[c])
  BY DEF Sound, Shaped
<1>1. DOMAIN g.dev[c] = {"peer", "gen", "mapped", "driver"}
  BY <1>0 DEF IsDevice
<1>2. /\ DOMAIN d = {"peer", "gen", "mapped", "driver"}
      /\ d.peer = g.dev[c].peer /\ d.gen = g.dev[c].gen /\ d.driver = g.dev[c].driver
  BY <1>1
<1>3. k.dev = [g.dev EXCEPT ![c] = d]
  BY <1>0, <1>1 DEF Mapped, State, Fields
<1>4. Frame(g, k, {"dev"})
  BY <1>0 DEF Mapped, Frame, State, Fields
<1>. HIDE DEF d, k
<1>5. k.dev[c] = d /\ \A e \in Conn : e # c => k.dev[e] = g.dev[e]
  BY <1>0, <1>3 DEF State
<1>6. d # NoDevice /\ IsDevice(d)
  BY <1>0, <1>2 DEF IsDevice, NoDevice, TraitOf
<1>7. /\ State(k) /\ k.records = g.records /\ k.kb = g.kb /\ k.ms = g.ms /\ k.next = g.next
      /\ k.applied = g.applied
  BY <1>4 DEF Frame, Fields
<1>8. \A e \in Conn : Live(k, e) <=> Live(g, e)
  BY <1>5, <1>6 DEF Live
<1>9. Shaped(k)
  <2>1. IsRecord(g.records[c], d)
    BY <1>0, <1>2 DEF Shaped, IsRecord
  <2>2. ASSUME NEW e \in Conn
        PROVE  IF Live(k, e) THEN IsDevice(k.dev[e]) /\ IsRecord(k.records[e], k.dev[e])
               ELSE k.records[e] = NoRecord
    BY <1>0, <1>5, <1>6, <1>7, <1>8, <2>1 DEF Shaped
  <2>. QED BY <1>0, <1>7, <2>2 DEF Shaped
<1>10. RolesHeld(k)
  <2>1. \A e \in Conn : KeyOf(k, e) = KeyOf(g, e)
    BY <1>2, <1>5 DEF KeyOf
  <2>. QED BY <1>0, <1>7, <1>8, <2>1 DEF RolesHeld, HoldsRole
<1>11. Frame(g, k, Late \cup {"dev", "cached"})
  BY <1>4, FrameWidens
<1>12. Heeds(g) => Heeds(k)
  BY <1>7 DEF Heeds, Obeys
<1>13. Live(k, c)
  BY <1>8
<1>. QED BY <1>2, <1>4, <1>5, <1>7, <1>9, <1>10, <1>11, <1>12, <1>13 DEF Binds, Sound, k

(* The descriptor is cached.                                               *)
LEMMA CachedDoes ==
  ASSUME NEW g, Sound(g), NEW c \in Conn, Live(g, c)
  PROVE  LET k == [g EXCEPT !.cached = c] IN
         Frame(g, k, {"cached"}) /\ Binds(g, k, c) /\ k.dev = g.dev
<1>. DEFINE k == [g EXCEPT !.cached = c]
<1>0. State(g)
  BY DEF Sound, Shaped
<1>1. Frame(g, k, {"cached"})
  BY <1>0 DEF Frame, State, Fields
<1>. HIDE DEF k
<1>2. /\ State(k) /\ k.dev = g.dev /\ k.records = g.records /\ k.kb = g.kb /\ k.ms = g.ms
      /\ k.next = g.next /\ k.applied = g.applied
  BY <1>1 DEF Frame, Fields
<1>3. Sound(k) /\ Live(k, c) /\ (Heeds(g) => Heeds(k))
  BY <1>2, SoundStays DEF Live, Heeds, Obeys
<1>4. Frame(g, k, Late \cup {"dev", "cached"})
  BY <1>1, FrameWidens
<1>. QED BY <1>1, <1>2, <1>3, <1>4 DEF Binds, k

(* A grown record is a binding.                                            *)
LEMMA GrownBinds ==
  ASSUME NEW g, NEW k, Sound(g), NEW c \in Conn, Live(g, c), Grown(g, k, c)
  PROVE  Binds(g, k, c)
<1>1. Sound(k) /\ k.kb = g.kb /\ k.ms = g.ms /\ Live(k, c) /\ k.dev = g.dev
  BY GrownSound, GrownShaped DEF Sound
<1>2. Frame(g, k, {"records"})
  BY DEF Grown
<1>3. Frame(g, k, Late \cup {"dev", "cached"}) /\ k.applied = g.applied
  BY <1>2 DEF Frame, Fields, Late
<1>4. Heeds(g) => Heeds(k)
  BY <1>1, <1>3 DEF Heeds, Obeys
<1>. QED BY <1>1, <1>3, <1>4 DEF Binds

(* A connection looked at is a binding.                                    *)
LEMMA NoteConnectionBinds ==
  ASSUME NEW g, Sound(g), NEW c \in Conn, Live(g, c)
  PROVE  Binds(g, NoteConnection(g, c), c)
<1>. DEFINE k == NoteConnection(g, c)
<1>1. /\ Frame(g, k, Late) /\ Sound(k) /\ k.applied = shared.req
      /\ g.applied # shared.req \/ Obeys(g) => Obeys(k)
  BY NoteConnectionDoes
<1>. HIDE DEF k
<1>2. k.dev = g.dev
  BY <1>1 DEF Frame, Fields, Late
<1>3. Frame(g, k, Late \cup {"dev", "cached"})
  BY <1>1, FrameWidens
<1>. QED BY <1>1, <1>2, <1>3 DEF Binds, Heeds, Live, k

-----------------------------------------------------------------------------
(* A descriptor, a late identity, a new connection.                        *)

(* A binding keeps the peer and its connection.                            *)
LEMMA BindsTrait ==
  ASSUME NEW g, NEW k, NEW c \in Conn, Binds(g, k, c)
  PROVE  TraitOf(k, c) = TraitOf(g, c) /\ Sound(k) /\ Live(k, c) /\ KeyOf(k, c) = KeyOf(g, c)
BY DEF Binds, TraitOf, KeyOf

(* Classification by descriptor is a binding.                              *)
LEMMA ClassifiedBinds ==
  ASSUME NEW g, Sound(g), NEW c \in Conn, Live(g, c), TraitOf(g, c).keys
  PROVE  Binds(g, Classified(g, c), c)
<1>1. Grown(g, Classified(g, c), c)
  BY ClassifiedDoes DEF Sound
<1>. QED BY <1>1, GrownBinds

(* bthid_set_hid_descriptor() is a binding, in each of its cases.          *)
LEMMA DescribedBinds ==
  ASSUME NEW g, Sound(g), NEW c \in Conn, Live(g, c)
  PROVE  Binds(g, Described(g, c), c)
<1>. DEFINE t == TraitOf(g, c)
            k == [g EXCEPT !.cached = c]
            open == g.dev[c].driver = "gamepad" /\ ~t.known
<1>1. Binds(g, k, c) /\ k.dev = g.dev
  BY CachedDoes
<1>2. Described(g, c) =
        CASE open /\ t.keys -> NoteConnection(Classified(Mapped(Rebound(k, c, "keyboard"), c), c), c)
          [] g.dev[c].driver = "keyboard" /\ t.keys -> Classified(Mapped(k, c), c)
          [] g.dev[c].driver = "keyboard" /\ ~t.keys -> NoteConnection(Rebound(k, c, "gamepad"), c)
          [] open /\ ~t.keys /\ t.pointer -> NoteConnection(Mapped(Rebound(k, c, "mouse"), c), c)
          [] OTHER -> k
  BY DEF Described
<1>. HIDE DEF k
<1>3. Sound(k) /\ Live(k, c) /\ TraitOf(k, c) = t
  BY <1>1, BindsTrait
<1>4. (t.keys => TypesKeys(t)) /\ (t.pointer => Points(t))
  BY DEF TypesKeys, Points
<1>. HIDE DEF t
<1>5. CASE open /\ t.keys
  <2>. DEFINE r == Rebound(k, c, "keyboard")
              m == Mapped(r, c)
              l == Classified(m, c)
              n == NoteConnection(l, c)
  <2>1. Binds(k, r, c)
    BY <1>3, <1>4, <1>5, ReboundDoes
  <2>. HIDE DEF r
  <2>2. Sound(r) /\ Live(r, c) /\ TraitOf(r, c) = t
    BY <1>3, <2>1, BindsTrait
  <2>3. Binds(r, m, c)
    BY <2>2, MappedDoes
  <2>. HIDE DEF m
  <2>4. Sound(m) /\ Live(m, c) /\ TraitOf(m, c) = t
    BY <2>2, <2>3, BindsTrait
  <2>5. Binds(m, l, c)
    BY <1>5, <2>4, ClassifiedBinds
  <2>. HIDE DEF l
  <2>6. Sound(l) /\ Live(l, c)
    BY <2>5, BindsTrait
  <2>7. Binds(l, n, c)
    BY <2>6, NoteConnectionBinds
  <2>8. Described(g, c) = n
    <3>1. Described(g, c) = NoteConnection(Classified(Mapped(Rebound(k, c, "keyboard"), c), c), c)
      BY <1>2, <1>5
    <3>. QED BY <3>1 DEF r, m, l
  <2>. HIDE DEF n
  <2>9. Binds(g, r, c)
    BY <1>1, <2>1, BindsGoesOn
  <2>10. Binds(g, m, c)
    BY <2>3, <2>9, BindsGoesOn
  <2>11. Binds(g, l, c)
    BY <2>5, <2>10, BindsGoesOn
  <2>12. Binds(g, n, c)
    BY <2>7, <2>11, BindsGoesOn
  <2>. QED BY <2>8, <2>12
<1>6. CASE g.dev[c].driver = "keyboard" /\ t.keys
  <2>. DEFINE m == Mapped(k, c)
              l == Classified(m, c)
  <2>1. Binds(k, m, c)
    BY <1>3, MappedDoes
  <2>. HIDE DEF m
  <2>2. Sound(m) /\ Live(m, c) /\ TraitOf(m, c) = t
    BY <1>3, <2>1, BindsTrait
  <2>3. Binds(m, l, c)
    BY <1>6, <2>2, ClassifiedBinds
  <2>4. Described(g, c) = l
    <3>1. Described(g, c) = Classified(Mapped(k, c), c)
      BY <1>2, <1>6
    <3>. QED BY <3>1 DEF m
  <2>. HIDE DEF l
  <2>5. Binds(g, m, c)
    BY <1>1, <2>1, BindsGoesOn
  <2>. QED BY <2>3, <2>4, <2>5, BindsGoesOn
<1>7. CASE g.dev[c].driver = "keyboard" /\ ~t.keys
  <2>. DEFINE m == Rebound(k, c, "gamepad")
              l == NoteConnection(m, c)
  <2>1. Binds(k, m, c)
    BY <1>3, ReboundDoes
  <2>. HIDE DEF m
  <2>2. Sound(m) /\ Live(m, c)
    BY <2>1, BindsTrait
  <2>3. Binds(m, l, c)
    BY <2>2, NoteConnectionBinds
  <2>4. Described(g, c) = l
    BY <1>2, <1>7 DEF m
  <2>. HIDE DEF l
  <2>5. Binds(g, m, c)
    BY <1>1, <2>1, BindsGoesOn
  <2>. QED BY <2>3, <2>4, <2>5, BindsGoesOn
<1>8. CASE open /\ ~t.keys /\ t.pointer
  <2>. DEFINE r == Rebound(k, c, "mouse")
              m == Mapped(r, c)
              l == NoteConnection(m, c)
  <2>1. Binds(k, r, c)
    BY <1>3, <1>4, <1>8, ReboundDoes
  <2>. HIDE DEF r
  <2>2. Sound(r) /\ Live(r, c)
    BY <2>1, BindsTrait
  <2>3. Binds(r, m, c)
    BY <2>2, MappedDoes
  <2>. HIDE DEF m
  <2>4. Sound(m) /\ Live(m, c)
    BY <2>3, BindsTrait
  <2>5. Binds(m, l, c)
    BY <2>4, NoteConnectionBinds
  <2>6. Described(g, c) = l
    BY <1>2, <1>8 DEF r, m
  <2>. HIDE DEF l
  <2>7. Binds(g, r, c)
    BY <1>1, <2>1, BindsGoesOn
  <2>8. Binds(g, m, c)
    BY <2>3, <2>7, BindsGoesOn
  <2>. QED BY <2>5, <2>6, <2>8, BindsGoesOn
<1>9. CASE g.dev[c].driver # "keyboard" /\ ~(open /\ (t.keys \/ t.pointer))
  <2>1. Described(g, c) = k
    BY <1>2, <1>9
  <2>. QED BY <1>1, <2>1
<1>10. CASE g.dev[c].driver = "keyboard" \/ (open /\ (t.keys \/ t.pointer))
  BY <1>5, <1>6, <1>7, <1>8, <1>10
<1>. QED BY <1>9, <1>10

(* bthid_update_device_info() is a binding.                                *)
LEMMA IdentifiedBinds ==
  ASSUME NEW g, Sound(g), NEW c \in Conn, Live(g, c)
  PROVE  Binds(g, Identified(g, c), c)
<1>. DEFINE t == TraitOf(g, c)
            r == Rebound(g, c, "gamepad")
            d == IF g.cached = c THEN Described(r, c) ELSE r
            n == NoteConnection(d, c)
<1>1. CASE t.ble /\ g.dev[c].driver = "keyboard"
  <2>1. Binds(g, r, c)
    BY ReboundDoes
  <2>2. Identified(g, c) = n
    BY <1>1 DEF Identified
  <2>. HIDE DEF r
  <2>3. Sound(r) /\ Live(r, c)
    BY <2>1, BindsTrait
  <2>4. Binds(r, d, c)
    BY <2>3, DescribedBinds, BindsStays
  <2>. HIDE DEF d
  <2>5. Sound(d) /\ Live(d, c)
    BY <2>4, BindsTrait
  <2>6. Binds(d, n, c)
    BY <2>5, NoteConnectionBinds
  <2>. HIDE DEF n
  <2>7. Binds(g, d, c)
    BY <2>1, <2>4, BindsGoesOn
  <2>. QED BY <2>2, <2>6, <2>7, BindsGoesOn
<1>2. CASE ~(t.ble /\ g.dev[c].driver = "keyboard")
  <2>1. Identified(g, c) = IF t.ble THEN g ELSE Described(g, c)
    BY <1>2 DEF Identified
  <2>. QED BY <2>1, DescribedBinds, BindsStays
<1>. QED BY <1>1, <1>2

(* bt_on_hid_ready() up to the first callback: the device is there.        *)
Arrived(g, c, p) ==
  [g EXCEPT !.dev[c] = [peer |-> p, gen |-> g.next, mapped |-> FALSE,
                        driver |-> MatchedDriver(Traits[p])],
            !.next = @ + 1,
            !.cached = IF Traits[p].ble THEN @ ELSE c]

(* A new device is sound, with a driver its class justifies.               *)
LEMMA ArrivedDoes ==
  ASSUME NEW g, Sound(g), NEW c \in Conn, ~Live(g, c), NEW p \in Peer
  PROVE  LET k == Arrived(g, c, p) IN
         /\ Frame(g, k, {"dev", "next", "cached"})
         /\ Sound(k) /\ Live(k, c)
         /\ k.dev[c] = [peer |-> p, gen |-> g.next, mapped |-> FALSE, driver |-> MatchedDriver(Traits[p])]
         /\ \A d \in Conn : d # c => k.dev[d] = g.dev[d]
         /\ k.records[c] = NoRecord /\ k.next = g.next + 1
<1>. DEFINE d == [peer |-> p, gen |-> g.next, mapped |-> FALSE, driver |-> MatchedDriver(Traits[p])]
            k == Arrived(g, c, p)
<1>0. Shaped(g) /\ State(g) /\ RolesHeld(g) /\ g.next \in Nat \ {0} /\ g.records[c] = NoRecord
  BY DEF Sound, Shaped
<1>1. Frame(g, k, {"dev", "next", "cached"})
  BY <1>0 DEF Arrived, Frame, State, Fields
<1>2. k.dev = [g.dev EXCEPT ![c] = d] /\ k.next = g.next + 1
  BY <1>0 DEF Arrived, State, Fields
<1>3. /\ DOMAIN d = {"peer", "gen", "mapped", "driver"} /\ d.peer = p /\ d.gen = g.next
      /\ d.driver = MatchedDriver(Traits[p])
  OBVIOUS
<1>. HIDE DEF d, k
<1>4. k.dev[c] = d /\ \A e \in Conn : e # c => k.dev[e] = g.dev[e]
  BY <1>0, <1>2 DEF State
<1>5. Traits[p] \in Trait
  BY TraitAssumption
<1>6. IsDevice(d)
  <2>1. LET t == Traits[p]
            m == MatchedDriver(t)
        IN  /\ m \in {"keyboard", "mouse", "gamepad"}
            /\ m = "keyboard" => TypesKeys(t)
            /\ m = "mouse" => Points(t)
    <3>. DEFINE t == Traits[p]
    <3>1. t.ble \in BOOLEAN /\ t.cod \in {"none", "keyboard", "pointing", "combo"}
      BY <1>5 DEF Trait
    <3>. HIDE DEF t
    <3>2. /\ MatchedDriver(t) \in {"keyboard", "mouse", "gamepad"}
          /\ MatchedDriver(t) = "keyboard" => TypesKeys(t)
          /\ MatchedDriver(t) = "mouse" => Points(t)
      BY <3>1 DEF MatchedDriver, TypesKeys, Points
    <3>. QED BY <3>2 DEF t
  <2>. QED BY <1>0, <1>3, <2>1 DEF IsDevice
<1>7. d # NoDevice
  BY <1>0, <1>3 DEF NoDevice
<1>8. /\ State(k) /\ k.records = g.records /\ k.kb = g.kb /\ k.ms = g.ms
  BY <1>1 DEF Frame, Fields
<1>9. \A e \in Conn : e # c => (Live(k, e) <=> Live(g, e))
  BY <1>4 DEF Live
<1>10. IsRecord(NoRecord, d)
  BY <1>3 DEF IsRecord, NoRecord, Primary
<1>11. Shaped(k)
  <2>1. ASSUME NEW e \in Conn
        PROVE  IF Live(k, e) THEN IsDevice(k.dev[e]) /\ IsRecord(k.records[e], k.dev[e])
               ELSE k.records[e] = NoRecord
    <3>1. CASE e = c
      BY <1>0, <1>4, <1>6, <1>7, <1>8, <1>10, <3>1 DEF Live
    <3>2. CASE e # c
      BY <1>0, <1>4, <1>8, <1>9, <3>2 DEF Shaped
    <3>. QED BY <3>1, <3>2
  <2>. QED BY <1>0, <1>2, <1>8, <2>1 DEF Shaped
<1>12. RolesHeld(k)
  <2>1. \A e \in Conn : e # c => KeyOf(k, e) = KeyOf(g, e)
    BY <1>4 DEF KeyOf
  <2>. QED BY <1>0, <1>8, <1>9, <2>1 DEF RolesHeld, HoldsRole
<1>. QED BY <1>0, <1>1, <1>2, <1>4, <1>7, <1>8, <1>11, <1>12 DEF Sound, Live, d, k

(* bt_on_hid_ready() binds the new device.                                 *)
LEMMA ReadySound ==
  ASSUME NEW g, Sound(g), NEW c \in Conn, ~Live(g, c), NEW p \in Peer
  PROVE  LET a == Arrived(g, c, p)
             k == Ready(g, c, p)
         IN  Binds(a, k, c) /\ (Heeds(g) => Heeds(k)) /\ k.applied \in {g.applied, shared.req}
<1>. DEFINE a == Arrived(g, c, p)
            t == Traits[p]
<1>1. /\ Frame(g, a, {"dev", "next", "cached"}) /\ Sound(a) /\ Live(a, c)
  BY ArrivedDoes
<1>2. Ready(g, c, p) =
        IF t.ble THEN Described(NoteConnection(a, c), c)
        ELSE IF MatchedDriver(t) = "keyboard" THEN NoteConnection(a, c)
        ELSE NoteConnection(Described(a, c), c)
  BY DEF Ready, Arrived
<1>. HIDE DEF a
<1>3. a.applied = g.applied /\ a.kb = g.kb /\ a.ms = g.ms
  BY <1>1 DEF Frame, Fields
<1>. DEFINE n == NoteConnection(a, c)
            d == Described(a, c)
<1>4. Binds(a, n, c) /\ Binds(a, d, c)
  BY <1>1, NoteConnectionBinds, DescribedBinds
<1>. HIDE DEF n, d
<1>5. Sound(n) /\ Live(n, c) /\ Sound(d) /\ Live(d, c)
  BY <1>4, BindsTrait
<1>6. Binds(n, Described(n, c), c) /\ Binds(d, NoteConnection(d, c), c)
  BY <1>5, DescribedBinds, NoteConnectionBinds
<1>7. Binds(a, Described(n, c), c) /\ Binds(a, NoteConnection(d, c), c)
  BY <1>4, <1>6, BindsGoesOn
<1>8. Binds(a, Ready(g, c, p), c)
  BY <1>2, <1>4, <1>7 DEF n, d
<1>9. Heeds(g) => Heeds(a)
  BY <1>3 DEF Heeds, Obeys
<1>. QED BY <1>3, <1>8, <1>9 DEF Binds, a

-----------------------------------------------------------------------------
(* A departing peer.                                                       *)

(* The role's record and what it held, before the other half is published. *)
RoleCleared(g, c) ==
  LET me == KeyOf(g, c)
      k == [g EXCEPT !.kb = IF @ = me THEN NoRole ELSE @,
                     !.ms = IF @ = me THEN NoRole ELSE @,
                     !.records[c] = NoRecord]
      l == IF g.kb = me THEN KeysDropped(k) ELSE k
  IN  IF g.ms = me THEN MouseDropped(l) ELSE l

(* The departing peer's roles, record and held input, and no other's, are  *)
(* cleared.                                                                *)
LEMMA RoleClearedDoes ==
  ASSUME NEW g, State(g), NEW c \in Conn
  PROVE  LET k == RoleCleared(g, c)
             me == KeyOf(g, c)
         IN  /\ Frame(g, k, {"kb", "ms", "records", "keys", "buttons", "motion"})
             /\ k.kb = IF g.kb = me THEN NoRole ELSE g.kb
             /\ k.ms = IF g.ms = me THEN NoRole ELSE g.ms
             /\ k.records[c] = NoRecord /\ \A d \in Conn : d # c => k.records[d] = g.records[d]
             /\ k.keys = IF g.kb = me THEN FALSE ELSE g.keys
             /\ k.buttons = IF g.ms = me THEN FALSE ELSE g.buttons
<1>. DEFINE me == KeyOf(g, c)
            kb == IF g.kb = me THEN NoRole ELSE g.kb
            ms == IF g.ms = me THEN NoRole ELSE g.ms
            k == [g EXCEPT !.kb = kb, !.ms = ms, !.records[c] = NoRecord]
            l == IF g.kb = me THEN KeysDropped(k) ELSE k
            m == IF g.ms = me THEN MouseDropped(l) ELSE l
<1>1. RoleCleared(g, c) = m
  BY DEF RoleCleared
<1>. HIDE DEF me, kb, ms
<1>2. /\ Frame(g, k, {"kb", "ms", "records"}) /\ k.kb = kb /\ k.ms = ms
      /\ k.records = [g.records EXCEPT ![c] = NoRecord]
  BY DEF Frame, State, Fields
<1>. HIDE DEF k
<1>3. k.records[c] = NoRecord /\ \A d \in Conn : d # c => k.records[d] = g.records[d]
  BY <1>2 DEF State
<1>4. State(k) /\ k.keys = g.keys /\ k.buttons = g.buttons
  BY <1>2 DEF Frame, Fields
<1>5. Frame(k, l, {"keys"}) /\ l.keys = IF g.kb = me THEN FALSE ELSE g.keys
  BY <1>4, DroppedDo, FrameStays
<1>. HIDE DEF l
<1>6. l.buttons = g.buttons /\ State(l)
  BY <1>4, <1>5 DEF Frame, Fields
<1>7. Frame(l, m, {"buttons", "motion"}) /\ m.buttons = IF g.ms = me THEN FALSE ELSE g.buttons
  BY <1>6, DroppedDo, FrameStays
<1>. HIDE DEF m
<1>8. Frame(g, m, {"kb", "ms", "records", "keys", "buttons", "motion"})
  BY <1>2, <1>5, <1>7 DEF Frame
<1>9. m.kb = k.kb /\ m.ms = k.ms /\ m.records = k.records /\ m.keys = l.keys
  BY <1>5, <1>7 DEF Frame, Fields
<1>. QED BY <1>1, <1>2, <1>3, <1>5, <1>7, <1>8, <1>9 DEF me, kb, ms

(* ns2_kbm_runtime_disconnect() then publishes the other half if there is  *)
(* one.                                                                    *)
LEMMA RoleReleasedDoes ==
  ASSUME NEW g, State(g), NEW c \in Conn
  PROVE  LET k == RoleReleased(g, c)
             j == RoleCleared(g, c)
             me == KeyOf(g, c)
         IN  /\ Frame(j, k, {"console"})
             /\ \/ /\ k.console = g.console
                   /\ me \notin {g.kb, g.ms} \/ (k.kb = NoRole /\ k.ms = NoRole) \/ g.adopted = 0
                \/ /\ k.console = [src |-> Composite, keys |-> k.keys, buttons |-> k.buttons]
                   /\ me \in {g.kb, g.ms}
<1>. DEFINE j == RoleCleared(g, c)
            me == KeyOf(g, c)
            k == RoleReleased(g, c)
<1>1. k = IF me \notin {g.kb, g.ms} \/ (j.kb = NoRole /\ j.ms = NoRole) \/ j.adopted = 0
          THEN j ELSE Published(j)
  BY DEF RoleReleased, RoleCleared
<1>2. Frame(g, j, {"kb", "ms", "records", "keys", "buttons", "motion"})
  BY RoleClearedDoes
<1>. HIDE DEF j, me, k
<1>3. State(j) /\ j.console = g.console /\ j.adopted = g.adopted
  BY <1>2 DEF Frame, Fields
<1>. DEFINE p == Published(j)
<1>4. Frame(j, p, {"console"}) /\ p.console = [src |-> Composite, keys |-> j.keys, buttons |-> j.buttons]
  BY <1>3, PublishedDoes
<1>. HIDE DEF p
<1>5. p.keys = j.keys /\ p.buttons = j.buttons
  BY <1>4 DEF Frame, Fields
<1>6. CASE k = j /\ (me \notin {g.kb, g.ms} \/ (j.kb = NoRole /\ j.ms = NoRole) \/ j.adopted = 0)
  <2>1. /\ Frame(j, k, {"console"}) /\ k.console = g.console
        /\ me \notin {g.kb, g.ms} \/ (k.kb = NoRole /\ k.ms = NoRole) \/ g.adopted = 0
    BY <1>3, <1>6, FrameStays
  <2>. QED BY <2>1 DEF j, me, k
<1>7. CASE k = p /\ me \in {g.kb, g.ms}
  <2>1. /\ Frame(j, k, {"console"})
        /\ k.console = [src |-> Composite, keys |-> k.keys, buttons |-> k.buttons]
    BY <1>4, <1>5, <1>7
  <2>. QED BY <1>7, <2>1 DEF j, me, k
<1>. QED BY <1>1, <1>6, <1>7 DEF p

(* ns2_active_input_disconnected_generation(): the console goes to the     *)
(* other half, or is silenced and goes to the best source.                 *)
LEMMA DepartedDoes ==
  ASSUME NEW g, State(g), NEW c \in Conn
  PROVE  LET k == Departed(g, c)
             left == IF c \in Standing(g.sources) THEN Withdrawn(g.sources, c) ELSE g.sources
             half == Members(left)
         IN  /\ Frame(g, k, {"sources", "owner", "console"})
             /\ k.sources = left
             /\ g.owner # c => k.owner = g.owner /\ k.console = g.console
             /\ g.owner = c /\ InComposite(g, c) /\ half # {} =>
                  k.owner = Earliest(left, half) /\ k.console = g.console
             /\ g.owner = c /\ ~(InComposite(g, c) /\ half # {}) =>
                  k.owner = Best(left) /\ k.console = Neutral
<1>. DEFINE src == IF c \in Standing(g.sources) THEN Withdrawn(g.sources, c) ELSE g.sources
            left == [g EXCEPT !.sources = src]
            half == Members(src)
            k == Departed(g, c)
<1>1. Frame(g, left, {"sources"}) /\ left.sources = src
  <2>1. DOMAIN src = Conn
    BY DEF Withdrawn, State
  <2>. HIDE DEF src
  <2>. QED BY <2>1 DEF Frame, State, Fields
<1>2. k = IF g.owner # c THEN left
          ELSE IF InComposite(g, c) /\ half # {}
          THEN [left EXCEPT !.owner = Earliest(src, half)]
          ELSE Silenced([left EXCEPT !.owner = Best(src)])
  <2>1. left = [g EXCEPT !.sources = IF c \in Standing(@) THEN Withdrawn(@, c) ELSE @]
    OBVIOUS
  <2>. QED BY <1>1, <2>1 DEF Departed
<1>. HIDE DEF src, left, k, half
<1>3. State(left) /\ left.owner = g.owner /\ left.console = g.console
  BY <1>1 DEF Frame, Fields
<1>4. ASSUME NEW o
      PROVE  LET l == [left EXCEPT !.owner = o] IN
             /\ Frame(g, l, {"sources", "owner", "console"}) /\ l.sources = src /\ l.owner = o
             /\ l.console = g.console /\ State(l)
  <2>. DEFINE l == [left EXCEPT !.owner = o]
  <2>1. Frame(left, l, {"owner"}) /\ l.owner = o
    BY <1>3 DEF Frame, State, Fields
  <2>. HIDE DEF l
  <2>2. l.sources = left.sources /\ l.console = left.console
    BY <2>1 DEF Frame, Fields
  <2>3. Frame(g, l, {"sources", "owner", "console"})
    BY <1>1, <2>1 DEF Frame
  <2>. QED BY <1>1, <1>3, <2>1, <2>2, <2>3, FrameStates DEF l
<1>5. ASSUME NEW o
      PROVE  LET l == Silenced([left EXCEPT !.owner = o]) IN
             /\ Frame(g, l, {"sources", "owner", "console"}) /\ l.sources = src /\ l.owner = o
             /\ l.console = Neutral
  <2>. DEFINE e == [left EXCEPT !.owner = o]
              l == Silenced(e)
  <2>1. /\ Frame(g, e, {"sources", "owner", "console"}) /\ e.sources = src /\ e.owner = o
        /\ State(e)
    BY <1>4
  <2>. HIDE DEF e
  <2>2. Frame(e, l, {"console"}) /\ l.console = Neutral
    BY <2>1, SilencedDoes
  <2>. HIDE DEF l
  <2>3. l.sources = e.sources /\ l.owner = e.owner
    BY <2>2 DEF Frame, Fields
  <2>4. Frame(g, l, {"sources", "owner", "console"})
    BY <2>1, <2>2 DEF Frame
  <2>. QED BY <2>1, <2>2, <2>3, <2>4 DEF l, e
<1>6. CASE g.owner # c
  <2>1. k = left
    BY <1>2, <1>6
  <2>2. Frame(g, k, {"sources", "owner", "console"})
    BY <1>1, <2>1, FrameWidens
  <2>. QED BY <1>1, <1>3, <1>6, <2>1, <2>2 DEF src, half, k
<1>7. CASE g.owner = c /\ InComposite(g, c) /\ half # {}
  <2>1. k = [left EXCEPT !.owner = Earliest(src, half)]
    BY <1>2, <1>7
  <2>. QED BY <1>4, <1>7, <2>1 DEF src, half, k
<1>8. CASE g.owner = c /\ ~(InComposite(g, c) /\ half # {})
  <2>1. k = Silenced([left EXCEPT !.owner = Best(src)])
    BY <1>2, <1>8
  <2>. QED BY <1>5, <1>8, <2>1 DEF src, half, k
<1>. QED BY <1>6, <1>7, <1>8

(* bt_on_disconnect() once the cached descriptor is dropped.               *)
Uncached(g, c) == [g EXCEPT !.cached = IF @ = c THEN Nobody ELSE @]

(* bt_on_disconnect() as a whole keeps h sound and obedient.               *)
LEMMA GoneDoes ==
  ASSUME NEW g, Sound(g), NEW c \in Conn, Live(g, c)
  PROVE  LET u == Uncached(g, c)
             r == RoleReleased(u, c)
             d == Departed(r, c)
             k == Gone(g, c)
         IN  /\ Frame(g, u, {"cached"})
             /\ Frame(g, r, {"cached", "kb", "ms", "records", "keys", "buttons", "motion", "console"})
             /\ Frame(r, d, {"sources", "owner", "console"})
             /\ Frame(d, k, {"dev"})
             /\ k.dev[c] = NoDevice /\ \A e \in Conn : e # c => k.dev[e] = g.dev[e]
             /\ Sound(k) /\ (Heeds(g) => Heeds(k)) /\ k.applied = g.applied
<1>. DEFINE u == Uncached(g, c)
            j == RoleCleared(u, c)
            r == RoleReleased(u, c)
            d == Departed(r, c)
            k == Gone(g, c)
            me == KeyOf(g, c)
<1>0. Shaped(g) /\ State(g) /\ RolesHeld(g)
  BY DEF Sound, Shaped
<1>1. Frame(g, u, {"cached"})
  BY <1>0 DEF Uncached, Frame, State, Fields
<1>2. k = [d EXCEPT !.dev[c] = NoDevice]
  BY DEF Gone, Uncached
<1>. HIDE DEF u
<1>3. State(u) /\ u.dev = g.dev /\ u.kb = g.kb /\ u.ms = g.ms /\ u.records = g.records
  BY <1>1 DEF Frame, Fields
<1>4. KeyOf(u, c) = me
  BY <1>3 DEF KeyOf
<1>. HIDE DEF me
<1>5. /\ Frame(u, j, {"kb", "ms", "records", "keys", "buttons", "motion"})
      /\ j.kb = IF g.kb = me THEN NoRole ELSE g.kb
      /\ j.ms = IF g.ms = me THEN NoRole ELSE g.ms
      /\ j.records[c] = NoRecord /\ \A e \in Conn : e # c => j.records[e] = g.records[e]
  <2>1. /\ Frame(u, j, {"kb", "ms", "records", "keys", "buttons", "motion"})
        /\ j.kb = IF u.kb = KeyOf(u, c) THEN NoRole ELSE u.kb
        /\ j.ms = IF u.ms = KeyOf(u, c) THEN NoRole ELSE u.ms
        /\ j.records[c] = NoRecord /\ \A e \in Conn : e # c => j.records[e] = u.records[e]
    BY <1>3, RoleClearedDoes
  <2>. HIDE DEF j
  <2>. QED BY <1>3, <1>4, <2>1
<1>6. Frame(j, r, {"console"})
  BY <1>3, RoleReleasedDoes
<1>. HIDE DEF j, r
<1>7. Frame(g, r, {"cached", "kb", "ms", "records", "keys", "buttons", "motion", "console"})
  BY <1>1, <1>5, <1>6 DEF Frame
<1>8. State(r) /\ r.kb = j.kb /\ r.ms = j.ms /\ r.records = j.records
  BY <1>6 DEF Frame, Fields
<1>9. Frame(r, d, {"sources", "owner", "console"})
  BY <1>8, DepartedDoes
<1>. HIDE DEF d
<1>10. State(d)
  BY <1>9, FrameStates
<1>11. Frame(d, k, {"dev"}) /\ k.dev = [d.dev EXCEPT ![c] = NoDevice]
  BY <1>2, <1>10 DEF Frame, State, Fields
<1>. HIDE DEF k
<1>12. d.dev = g.dev
  BY <1>7, <1>9 DEF Frame, Fields
<1>13. k.dev[c] = NoDevice /\ \A e \in Conn : e # c => k.dev[e] = g.dev[e]
  BY <1>0, <1>11, <1>12 DEF State
<1>14. k.kb = j.kb /\ k.ms = j.ms /\ k.records = j.records /\ k.next = g.next /\ k.applied = g.applied
  BY <1>7, <1>8, <1>9, <1>11 DEF Frame, Fields
<1>15. ~Live(k, c) /\ \A e \in Conn : e # c => (Live(k, e) <=> Live(g, e)) /\ KeyOf(k, e) = KeyOf(g, e)
  BY <1>13 DEF Live, KeyOf
<1>16. Shaped(k)
  <2>1. ASSUME NEW e \in Conn
        PROVE  IF Live(k, e) THEN IsDevice(k.dev[e]) /\ IsRecord(k.records[e], k.dev[e])
               ELSE k.records[e] = NoRecord
    <3>1. CASE e = c
      BY <1>5, <1>14, <1>15, <3>1
    <3>2. CASE e # c
      BY <1>0, <1>5, <1>13, <1>14, <1>15, <3>2 DEF Shaped
    <3>. QED BY <3>1, <3>2
  <2>2. State(k)
    BY <1>11, FrameStates
  <2>. QED BY <1>0, <1>14, <2>1, <2>2 DEF Shaped
<1>17. \A role : HoldsRole(g, role) /\ role # me =>
         HoldsRole(k, role) /\ k.records[role.conn] = g.records[role.conn]
  BY <1>5, <1>14, <1>15 DEF HoldsRole, me
<1>18. RolesHeld(k)
  <2>1. k.kb = NoRole \/ /\ HoldsRole(k, k.kb) /\ k.records[k.kb.conn].keys
                         /\ k.records[k.kb.conn].primary \in {"keyboard", "combo"}
    BY <1>0, <1>5, <1>14, <1>17 DEF RolesHeld
  <2>2. k.ms = NoRole \/ /\ HoldsRole(k, k.ms) /\ k.records[k.ms.conn].pointer
                         /\ k.records[k.ms.conn].primary \in {"mouse", "combo"}
    BY <1>0, <1>5, <1>14, <1>17 DEF RolesHeld
  <2>. QED BY <2>1, <2>2 DEF RolesHeld
<1>19. Heeds(g) => Heeds(k)
  BY <1>5, <1>14 DEF Heeds, Obeys
<1>. QED BY <1>1, <1>7, <1>9, <1>11, <1>13, <1>14, <1>16, <1>18, <1>19 DEF Sound, u, r, d, k

-----------------------------------------------------------------------------
(* The first layer, with no hypothesis on the constants: roles are sound   *)
(* and obey the mode.                                                      *)

(* The fields that bear on no role, and a step that keeps the first layer. *)
Show == {"sources", "owner", "cached", "keys", "buttons", "motion", "console", "adopted"}
Proceeds(g, k) == Sound(k) /\ (Heeds(g) => Heeds(k)) /\ k.applied \in {g.applied, shared.req}

(* A step on those fields proceeds.                                        *)
LEMMA ShowProceeds ==
  ASSUME NEW g, NEW k, Sound(g), Frame(g, k, Show)
  PROVE  Proceeds(g, k) /\ k.dev = g.dev
<1>1. /\ State(k) /\ k.dev = g.dev /\ k.records = g.records /\ k.kb = g.kb /\ k.ms = g.ms
      /\ k.next = g.next /\ k.applied = g.applied
  BY DEF Frame, Fields, Show
<1>. QED BY <1>1, SoundStays DEF Proceeds, Heeds, Obeys

(* Two steps in a row.                                                     *)
LEMMA ProceedsOn ==
  ASSUME NEW g, NEW k, NEW l, Proceeds(g, k), Proceeds(k, l)
  PROVE  Proceeds(g, l)
BY DEF Proceeds

(* A connection looked at proceeds and has the mode applied.               *)
LEMMA NoteConnectionProceeds ==
  ASSUME NEW g, Sound(g), NEW c \in Conn, Live(g, c)
  PROVE  LET k == NoteConnection(g, c) IN
         Proceeds(g, k) /\ Live(k, c) /\ k.dev = g.dev /\ k.applied = shared.req
<1>. DEFINE k == NoteConnection(g, c)
<1>1. Frame(g, k, Late) /\ Binds(g, k, c) /\ k.applied = shared.req
  BY NoteConnectionDoes, NoteConnectionBinds
<1>. HIDE DEF k
<1>2. k.dev = g.dev
  BY <1>1 DEF Frame, Late, Fields
<1>. QED BY <1>1, <1>2 DEF Binds, Proceeds, k

(* A submission proceeds.                                                  *)
LEMMA SubmittedProceeds ==
  ASSUME NEW g, Sound(g), NEW c \in Conn, NEW member
  PROVE  Proceeds(g, Submitted(g, c, member))
<1>1. State(g)
  BY DEF Sound, Shaped
<1>2. Frame(g, Submitted(g, c, member), {"sources", "owner", "console"})
  BY <1>1, SubmittedDoes
<1>3. Frame(g, Submitted(g, c, member), Show)
  BY <1>2, FrameWidens DEF Show
<1>. QED BY <1>3, ShowProceeds

(* What core 0 and core 1 count.                                           *)
Counted ==
  /\ DOMAIN shared = {"mode", "req", "gen"}
  /\ shared.req \in Nat /\ h.applied \in Nat /\ h.applied <= shared.req
(* The first inductive invariant: roles belong to devices that can fill    *)
(* them, core 1 never runs ahead of the requests, and once core 0 has      *)
(* finished a mode change the applied mode is obeyed.                      *)
KBase == Sound(h) /\ Counted /\ (core0k = "idle" => Heeds(h))

(* It holds at first.                                                      *)
LEMMA KBaseInit == KInit => KBase
<1>. SUFFICES ASSUME KInit PROVE KBase
  OBVIOUS
<1>1. /\ DOMAIN h = Fields /\ h.dev = [c \in Conn |-> NoDevice] /\ h.records = [c \in Conn |-> NoRecord]
      /\ h.kb = NoRole /\ h.ms = NoRole /\ h.sources = [c \in Conn |-> NoSource]
      /\ h.applied = 0 /\ h.next = 1
  BY DEF KInit, Fields
<1>2. Shaped(h)
  BY <1>1 DEF Shaped, State, Live
<1>3. Counted /\ Obeys(h)
  BY <1>1 DEF KInit, Counted, Obeys
<1>. QED BY <1>1, <1>2, <1>3 DEF KBase, Sound, RolesHeld, Heeds

(* Connect keeps it.                                                       *)
LEMMA ConnectProceeds ==
  ASSUME KBase, NEW c \in Conn, NEW p \in Peer, Connect(c, p)
  PROVE  Proceeds(h, h')
<1>1. Sound(h) /\ ~Live(h, c) /\ h' = Ready(h, c, p)
  BY DEF KBase, Connect
<1>2. LET k == Ready(h, c, p) IN
      /\ Binds(Arrived(h, c, p), k, c) /\ (Heeds(h) => Heeds(k))
      /\ k.applied \in {h.applied, shared.req}
  BY <1>1, ReadySound
<1>. QED BY <1>1, <1>2 DEF Proceeds, Binds

(* Identify keeps it.                                                      *)
LEMMA IdentifyProceeds ==
  ASSUME KBase, NEW c \in Conn, Identify(c)
  PROVE  Proceeds(h, h')
<1>1. Sound(h) /\ Live(h, c) /\ h' = Identified(h, c)
  BY DEF KBase, Identify
<1>2. Binds(h, h', c)
  BY <1>1, IdentifiedBinds
<1>. QED BY <1>2 DEF Proceeds, Binds

(* Disconnect keeps it.                                                    *)
LEMMA DisconnectProceeds ==
  ASSUME KBase, NEW c \in Conn, Disconnect(c)
  PROVE  Proceeds(h, h')
<1>1. Sound(h) /\ Live(h, c) /\ h' = Gone(h, c)
  BY DEF KBase, Disconnect
<1>2. LET k == Gone(h, c) IN Sound(k) /\ (Heeds(h) => Heeds(k)) /\ k.applied = h.applied
  BY <1>1, GoneDoes
<1>. QED BY <1>1, <1>2 DEF Proceeds

(* A keyboard or mouse report keeps it.                                    *)
LEMMA CompositeReportProceeds ==
  ASSUME KBase, NEW c \in Conn, NEW role \in {"keyboard", "mouse"}, NEW v, CompositeReport(c, role, v)
  PROVE  Proceeds(h, h')
<1>. DEFINE g == NoteConnection(h, c)
            k == Considered(g, c, role)
            a == Admitted(k, c)
            s == Submitted(a, c, TRUE)
<1>1. Sound(h) /\ Live(h, c) /\ Reports(h, c, role) /\ h' \in {s, a}
  BY DEF KBase, CompositeReport, Routed
<1>2. Proceeds(h, g) /\ Live(g, c) /\ g.dev = h.dev
  BY <1>1, NoteConnectionProceeds
<1>. HIDE DEF g
<1>3. Sound(g) /\ Shaped(g) /\ Reports(g, c, role)
  BY <1>1, <1>2 DEF Proceeds, Reports, TraitOf, Sound
<1>4. Grown(g, k, c)
  BY <1>2, <1>3, ConsideredDoes
<1>. HIDE DEF k
<1>5. Binds(g, k, c)
  BY <1>2, <1>3, <1>4, GrownBinds
<1>6. Proceeds(g, k) /\ Sound(k) /\ Live(k, c) /\ State(k)
  BY <1>5 DEF Proceeds, Binds, Sound, Shaped
<1>7. Sound(a) /\ (Obeys(k) => Obeys(a)) /\ Frame(k, a, {"kb", "ms"})
  BY <1>6, AdmittedSound, AdmittedDoes
<1>. HIDE DEF a
<1>8. a.applied = k.applied
  BY <1>7 DEF Frame, Fields
<1>9. Proceeds(k, a)
  BY <1>7, <1>8 DEF Proceeds, Heeds
<1>10. Proceeds(a, s)
  BY <1>7, SubmittedProceeds
<1>. HIDE DEF s
<1>11. Proceeds(h, a)
  BY <1>2, <1>6, <1>9, ProceedsOn
<1>12. Proceeds(h, s)
  BY <1>10, <1>11, ProceedsOn
<1>. QED BY <1>1, <1>11, <1>12

(* An ordinary report keeps it.                                            *)
LEMMA OrdinaryReportProceeds ==
  ASSUME KBase, NEW c \in Conn, NEW v, OrdinaryReport(c, v)
  PROVE  Proceeds(h, h')
<1>. DEFINE g == NoteConnection(h, c)
            s == Submitted(g, c, FALSE)
            shows == [s EXCEPT !.console = [src |-> c, keys |-> FALSE, buttons |-> v]]
<1>1. Sound(h) /\ Live(h, c) /\ h' \in {g, s, shows}
  BY DEF KBase, OrdinaryReport, Forwarded
<1>2. Proceeds(h, g)
  BY <1>1, NoteConnectionProceeds
<1>. HIDE DEF g
<1>3. Proceeds(g, s)
  BY <1>2, SubmittedProceeds DEF Proceeds
<1>. HIDE DEF s
<1>4. Frame(s, shows, Show)
  BY <1>3 DEF Proceeds, Sound, Shaped, Frame, State, Fields, Show
<1>5. Proceeds(s, shows)
  BY <1>3, <1>4, ShowProceeds DEF Proceeds
<1>. HIDE DEF shows
<1>6. Proceeds(h, s)
  BY <1>2, <1>3, ProceedsOn
<1>7. Proceeds(h, shows)
  BY <1>5, <1>6, ProceedsOn
<1>. QED BY <1>1, <1>2, <1>6, <1>7

(* A report that only the hook sees keeps it.                              *)
LEMMA UndecodedReleaseProceeds ==
  ASSUME KBase, NEW c \in Conn, NEW role, UndecodedRelease(c, role)
  PROVE  Proceeds(h, h')
<1>1. Sound(h) /\ Live(h, c) /\ h' = NoteConnection(h, c)
  BY DEF KBase, UndecodedRelease
<1>. QED BY <1>1, NoteConnectionProceeds

(* A publication keeps it.                                                 *)
LEMMA PublishProceeds ==
  ASSUME KBase, Publish
  PROVE  Proceeds(h, h')
<1>. DEFINE g == ConfigAdopted(h)
            l == IF job.role = "keyboard" THEN [g EXCEPT !.keys = job.value]
                 ELSE [g EXCEPT !.buttons = job.value, !.motion = TRUE]
<1>1. Sound(h) /\ State(h) /\ h' = Published(l)
  BY DEF KBase, Publish, Sound, Shaped
<1>2. Frame(h, g, Show)
  <2>1. g = h \/ Frame(h, g, {"keys", "buttons", "motion", "console", "adopted"})
    BY <1>1, ConfigAdoptedDoes
  <2>. HIDE DEF g
  <2>. QED BY <1>1, <2>1, FrameStays, FrameWidens DEF Show
<1>. HIDE DEF g
<1>3. State(g)
  BY <1>2, FrameStates
<1>4. Frame(g, l, {"keys", "buttons", "motion"})
  <2>1. Frame(g, [g EXCEPT !.keys = job.value], {"keys", "buttons", "motion"})
    BY <1>3 DEF Frame, State, Fields
  <2>2. Frame(g, [g EXCEPT !.buttons = job.value, !.motion = TRUE], {"keys", "buttons", "motion"})
    BY <1>3 DEF Frame, State, Fields
  <2>. QED BY <2>1, <2>2
<1>. HIDE DEF l
<1>5. Frame(l, h', {"console"})
  BY <1>1, <1>4, FrameStates, PublishedDoes
<1>6. Frame(h, h', Show)
  BY <1>2, <1>4, <1>5 DEF Frame, Show
<1>. QED BY <1>1, <1>6, ShowProceeds

(* The 3 ms service keeps it.                                              *)
LEMMA ServiceProceeds ==
  ASSUME KBase, Service
  PROVE  Proceeds(h, h')
<1>. DEFINE g == ModeApplied(h)
<1>1. Sound(h)
  BY DEF KBase
<1>2. h' = g \/ \E more \in BOOLEAN : h' = Published([g EXCEPT !.motion = more])
  BY DEF Service
<1>3. Sound(g) /\ g.applied = shared.req /\ (Heeds(h) => Heeds(g))
  BY <1>1, ModeAppliedDoes DEF Heeds
<1>. HIDE DEF g
<1>4. Proceeds(h, g) /\ State(g)
  BY <1>3 DEF Proceeds, Sound, Shaped
<1>5. ASSUME NEW more \in BOOLEAN, h' = Published([g EXCEPT !.motion = more])
      PROVE  Proceeds(g, h')
  <2>. DEFINE l == [g EXCEPT !.motion = more]
  <2>1. Frame(g, l, {"motion"})
    BY <1>4 DEF Frame, State, Fields
  <2>2. h' = Published(l)
    BY <1>5
  <2>. HIDE DEF l
  <2>3. Frame(l, h', {"console"})
    BY <2>1, <2>2, FrameStates, PublishedDoes
  <2>4. Frame(g, h', Show)
    BY <2>1, <2>3 DEF Frame, Show
  <2>. QED BY <1>3, <2>4, ShowProceeds
<1>6. CASE h' = g
  BY <1>4, <1>6
<1>7. CASE \E more \in BOOLEAN : h' = Published([g EXCEPT !.motion = more])
  <2>1. Proceeds(g, h')
    BY <1>5, <1>7
  <2>. QED BY <1>4, <2>1, ProceedsOn
<1>. QED BY <1>2, <1>6, <1>7

(* Every step keeps it: between SetMode and SetModeRequest core 1 may      *)
(* admit by the new mode, by the old one or by both, which the last        *)
(* conjunct of KBase leaves open until the request is counted and applied. *)
LEMMA KBaseStep == KBase /\ [KNext]_kvars => KBase'
<1>. SUFFICES ASSUME KBase, [KNext]_kvars PROVE KBase'
  OBVIOUS
<1>1. ASSUME Proceeds(h, h'), UNCHANGED <<shared, core0k>>
      PROVE  KBase'
  BY <1>1 DEF KBase, Counted, Proceeds, Heeds, Obeys
<1>2. CASE \E c \in Conn, p \in Peer : Connect(c, p)
  BY <1>1, <1>2, ConnectProceeds DEF Connect
<1>3. CASE \E c \in Conn : Identify(c)
  BY <1>1, <1>3, IdentifyProceeds DEF Identify
<1>4. CASE \E c \in Conn : Disconnect(c)
  BY <1>1, <1>4, DisconnectProceeds DEF Disconnect
<1>5. CASE \E c \in Conn, role \in {"keyboard", "mouse"}, v \in BOOLEAN : CompositeReport(c, role, v)
  BY <1>1, <1>5, CompositeReportProceeds DEF CompositeReport
<1>6. CASE Publish
  BY <1>1, <1>6, PublishProceeds DEF Publish
<1>7. CASE \E c \in Conn, v \in BOOLEAN : OrdinaryReport(c, v)
  BY <1>1, <1>7, OrdinaryReportProceeds DEF OrdinaryReport
<1>14. CASE \E c \in Conn, role \in {"keyboard", "mouse"} : UndecodedRelease(c, role)
  BY <1>1, <1>14, UndecodedReleaseProceeds DEF UndecodedRelease
<1>8. CASE Service
  BY <1>1, <1>8, ServiceProceeds DEF Service
<1>9. CASE \E m \in Chosen : SetMode(m)
  BY <1>9 DEF SetMode, KBase, Counted
<1>10. CASE SetModeNeutral
  <2>1. Sound(h) /\ State(h) /\ h' = Silenced(h) /\ core0k' # "idle" /\ shared' = shared
    BY <1>10 DEF SetModeNeutral, KBase, Sound, Shaped
  <2>2. Frame(h, h', Show)
    BY <2>1, SilencedDoes, FrameWidens DEF Show
  <2>3. Proceeds(h, h')
    BY <2>1, <2>2, ShowProceeds
  <2>. QED BY <2>1, <2>3 DEF KBase, Counted, Proceeds
<1>11. CASE SetModeRequest
  BY <1>11 DEF SetModeRequest, KBase, Counted, Heeds
<1>12. CASE EditConfig
  BY <1>12 DEF EditConfig, KBase, Counted, Heeds, Obeys
<1>13. CASE UNCHANGED kvars
  BY <1>13 DEF kvars, KBase, Counted, Heeds, Obeys
<1>. QED BY <1>2, <1>3, <1>4, <1>5, <1>6, <1>7, <1>8, <1>9, <1>10, <1>11, <1>12, <1>13, <1>14 DEF KNext

(* The first layer always holds.                                           *)
THEOREM KBaseAlways == KSpec => []KBase
BY KBaseInit, KBaseStep, PTL DEF KSpec

(* A role always belongs to a live connection that can emit what the role  *)
(* needs, and one peer holds both only as a combo, for any peers, traits,  *)
(* modes and personalities (ns2_kbm_roles_admit, note_ready, peer_forget). *)
THEOREM RolesAlwaysSound == KSpec => []RolesSound
<1>1. ASSUME KBase PROVE RolesSound
  <2>1. Shaped(h) /\ RolesHeld(h)
    BY <1>1 DEF KBase, Sound
  <2>2. \A c \in Conn : Live(h, c) => IsRecord(h.records[c], h.dev[c])
    BY <2>1 DEF Shaped
  <2>3. h.kb # NoRole => /\ Live(h, h.kb.conn) /\ h.kb = KeyOf(h, h.kb.conn)
                         /\ IsRecord(h.records[h.kb.conn], h.dev[h.kb.conn])
                         /\ h.records[h.kb.conn].primary \in {"keyboard", "combo"}
    BY <2>1, <2>2 DEF RolesHeld, HoldsRole
  <2>4. h.ms # NoRole => /\ Live(h, h.ms.conn) /\ h.ms = KeyOf(h, h.ms.conn)
                         /\ IsRecord(h.records[h.ms.conn], h.dev[h.ms.conn])
                         /\ h.records[h.ms.conn].primary \in {"mouse", "combo"}
    BY <2>1, <2>2 DEF RolesHeld, HoldsRole
  <2>5. h.kb # NoRole =>
          /\ TypesKeys(TraitOf(h, h.kb.conn))
          /\ ~TraitOf(h, h.kb.conn).pointer \/ TraitOf(h, h.kb.conn).strong \/ ~TraitOf(h, h.kb.conn).ble
    BY <2>3 DEF IsRecord, NotPad, TraitOf
  <2>6. h.ms # NoRole => Points(TraitOf(h, h.ms.conn))
    BY <2>4 DEF IsRecord, TraitOf
  <2>7. h.kb = h.ms => h.kb = NoRole \/ TraitOf(h, h.kb.conn).cod = "combo"
    BY <2>3, <2>4 DEF IsRecord, TraitOf
  <2>. QED BY <2>3, <2>4, <2>5, <2>6, <2>7 DEF RolesSound
<1>2. KBase => RolesSound
  BY <1>1
<1>. QED BY <1>2, KBaseAlways, PTL

(* Once core 1 has applied the last mode change only the roles that mode   *)
(* allows are held, whichever reports were in flight                       *)
(* (ns2_kbm_runtime_set_mode, apply_pending_mode_change).                  *)
THEOREM ModeAlwaysObeyed == KSpec => []ModeObeyed
<1>1. KBase => ModeObeyed
  BY DEF KBase, Heeds, Obeys, ModeObeyed
<1>. QED BY <1>1, KBaseAlways, PTL

=============================================================================

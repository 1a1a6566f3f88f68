----------------------------- MODULE FlotCanvas ------------------------------
(***************************************************************************)
(* The text that a chart lays over its canvas (Canvas in web/js/           *)
(* jquery.flot.js): a cache of the labels in use, each with its size and   *)
(* the positions at which it stands, and a render pass that brings the     *)
(* page's elements in line with the positions asked for.                   *)
(*                                                                         *)
(* A canvas is a record: text, the cache of each layer; css, the elements  *)
(* that exist, each with its label and where it has been put; dom, the     *)
(* elements in the page, by layer.  Lengths are in tenths of a pixel.      *)
(***************************************************************************)
EXTENDS Integers, FiniteSets, SequencesExt

Layers == {"x", "y"}
Px == 10

NewCanvas == [text |-> [l \in Layers |-> <<>>], css |-> <<>>, dom |-> [l \in Layers |-> {}]]

\* Element ids are fresh while the element is held by the cache or the page.
FreshElement(canvas) == CHOOSE e \in 1 .. Cardinality(DOMAIN canvas.css) + 1 :
                          e \notin DOMAIN canvas.css

\* External: the browser measures a text, which wraps at the greatest width.
CharactersOf(field) ==
  CASE field[1] = "%Y" -> 5 [] field[1] = "%b" -> 4 [] field[1] = "number" -> 6 [] OTHER -> 3
TextWidth(label) == 6 * Px * FoldLeft(LAMBDA n, field : n + CharactersOf(field), 0, label)
LineHeight == 16 * Px
Measured(label, maxWidth) ==
  LET lines == -((-TextWidth(label)) \div maxWidth)
  IN  IF lines <= 1 THEN [width |-> TextWidth(label), height |-> LineHeight]
                    ELSE [width |-> maxWidth, height |-> lines * LineHeight]

Pixel(length) == (length + Px \div 2) \div Px

\* textCache[label] = info, and the style of an element.
WithInfo(text, layer, label, info) ==
  [text EXCEPT ![layer] = [t \in DOMAIN @ \cup {label} |-> IF t = label THEN info ELSE @[t]]]

WithStyle(css, element, style) ==
  [e \in DOMAIN css \cup {element} |-> IF e = element THEN style ELSE css[e]]

\* getTextInfo: a label not in the cache of its layer gets an element, measured and
\* detached; one in the cache keeps the size it was measured with.
GetTextInfo(canvas, layer, label, maxWidth) ==
  IF label \in DOMAIN canvas.text[layer] THEN canvas
  ELSE LET e == FreshElement(canvas)
           size == Measured(label, maxWidth)
           info == [width |-> size.width, height |-> size.height, element |-> e, positions |-> {}]
       IN  [text |-> WithInfo(canvas.text, layer, label, info),
            css |-> WithStyle(canvas.css, e, [label |-> label, left |-> 0, top |-> -9999]),
            dom |-> canvas.dom]

\* Fault the run must notice: every position of a label uses the one element.
AddTextShared(canvas, layer, label, x, y, halign, valign) ==
  LET info == canvas.text[layer][label]
      left == x - (CASE halign = "center" -> info.width \div 2
                     [] halign = "right" -> info.width [] OTHER -> 0)
      top == y - IF valign = "middle" THEN info.height \div 2 ELSE 0
      position == [active |-> TRUE, rendered |-> FALSE, element |-> info.element,
                   x |-> left, y |-> top]
  IN  [text |-> WithInfo(canvas.text, layer, label, [info EXCEPT !.positions = @ \cup {position}]),
       css |-> WithStyle(canvas.css, info.element,
                         [label |-> label, left |-> Pixel(left), top |-> Pixel(top)]),
       dom |-> canvas.dom]

\* addText, for a label that has been measured and the corner of its text: one that
\* stands there stays; otherwise it gets a position, the first with the element of the
\* label and the others with a clone.
AddTextAt(canvas, layer, label, left, top) ==
  LET info == canvas.text[layer][label]
      at(p) == p.x = left /\ p.y = top
      e == IF info.positions = {} THEN info.element ELSE FreshElement(canvas)
      position == [active |-> TRUE, rendered |-> FALSE, element |-> e, x |-> left, y |-> top]
      With(positions) == WithInfo(canvas.text, layer, label, [info EXCEPT !.positions = positions])
  IN  IF \E p \in info.positions : at(p)
      THEN [canvas EXCEPT
              !.text = With({IF at(p) THEN [p EXCEPT !.active = TRUE] ELSE p : p \in info.positions})]
      ELSE [text |-> With(info.positions \cup {position}),
            css |-> WithStyle(canvas.css, e,
                              [label |-> label, left |-> Pixel(left), top |-> Pixel(top)]),
            dom |-> canvas.dom]

\* addText: the corner of the text, from the point that it is aligned to.
AddText(canvas, layer, label, x, y, halign, valign) ==
  LET info == canvas.text[layer][label]
  IN  AddTextAt(canvas, layer, label,
                x - (CASE halign = "center" -> info.width \div 2
                       [] halign = "right" -> info.width [] OTHER -> 0),
                y - IF valign = "middle" THEN info.height \div 2 ELSE 0)

\* removeText, of a label and of a layer: nothing leaves the page before the next render.
Passive(info) == [info EXCEPT !.positions = {[p EXCEPT !.active = FALSE] : p \in @}]

RemoveText(canvas, layer) ==
  LET passive == [label \in DOMAIN canvas.text[layer] |-> Passive(canvas.text[layer][label])]
  IN  [canvas EXCEPT !.text = [canvas.text EXCEPT ![layer] = passive]]

\* The positions of a layer, over all its labels.
Positions(canvas, layer) ==
  UNION {canvas.text[layer][label].positions : label \in DOMAIN canvas.text[layer]}

\* render, of a label: the active positions are in the page, and the others are dropped.
Rendered(info) ==
  [info EXCEPT !.positions = {[p EXCEPT !.rendered = TRUE] : p \in {q \in @ : q.active}}]

\* render: active positions enter the page, the others leave it and the cache, and so
\* does a label without positions.
Render(canvas) ==
  LET kept(layer) ==
        [label \in {t \in DOMAIN canvas.text[layer] :
                      \E p \in canvas.text[layer][t].positions : p.active} |->
           Rendered(canvas.text[layer][label])]
      text == [layer \in Layers |-> kept(layer)]
      enter(layer) == {p \in Positions(canvas, layer) : p.active /\ ~p.rendered}
      leave(layer) == {p \in Positions(canvas, layer) : ~p.active /\ p.rendered}
      dom == [layer \in Layers |-> (canvas.dom[layer] \cup {p.element : p \in enter(layer)})
                                      \ {p.element : p \in leave(layer)}]
      held == UNION {dom[l] \cup {text[l][t].element : t \in DOMAIN text[l]} : l \in Layers}
  IN  [text |-> text, dom |-> dom, css |-> Restrict(canvas.css, held)]
-----------------------------------------------------------------------------
(* What a reader sees, and what the positions ask for. *)

Shown(canvas) ==
  UNION {{[layer |-> l, label |-> canvas.css[e].label,
           left |-> canvas.css[e].left, top |-> canvas.css[e].top] : e \in canvas.dom[l]} :
         l \in Layers}

AskedFor(canvas) ==
  UNION {UNION {{[layer |-> l, label |-> t, left |-> Pixel(p.x), top |-> Pixel(p.y)] :
                   p \in {q \in canvas.text[l][t].positions : q.active}} :
                t \in DOMAIN canvas.text[l]} : l \in Layers}
=============================================================================

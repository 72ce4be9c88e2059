--------------------------------- MODULE Ui ---------------------------------
(***************************************************************************)
(* What the widgets of soul/ui remember: running animations, theme and     *)
(* pages, and the state of the controls.  The parts share no state.        *)
(***************************************************************************)
EXTENDS Integers, Sequences, SequencesExt, Lists

(* The place of the first i in a list, and the list without it *)
PlaceOf(s, i) == CHOOSE n \in DOMAIN s : s[n] = i /\ \A m \in 1..(n - 1) : s[m] # i
RemoveOne(s, i) == IF i \notin Range(s) THEN s ELSE RemoveAt(s, PlaceOf(s, i))

(***************************************************************************)
(* sc::Animation (ui/animation.cpp), which moves, fades and lights one     *)
(* widget, and the handlers of Card, Button, Input and the side bar's      *)
(* hover filter that call it.  A call is a function of the widget, as a    *)
(* handler makes several.                                                  *)
(*                                                                         *)
(* All of it runs in the thread of the user interface.  What Qt does is    *)
(* external: a property has one running animation, and a second one stops  *)
(* the first, with the group it belongs to; an animation whose target was  *)
(* deleted stops; neither of them signals finished().  An animation that   *)
(* has stopped is deleted, so an entry of s_animationCache is live while   *)
(* `move' is of its kind.  A widget has one effect, setGraphicsEffect()    *)
(* deletes the old one, and an entry of s_glowEffectCache is live while    *)
(* the effect is the "glow" of applyGlow().  A geometry is a place on a    *)
(* line and a size.                                                        *)
(***************************************************************************)
CONSTANTS
    Lift,     \* design::HOVER_LIFT_OFFSET
    MaxAway,  \* bound on how far a widget goes from where it was first
    MaxAsked  \* bound on the calls of the program and of the layout

ASSUME MotionAssumption == Lift \in Nat \ {0} /\ MaxAway \in Nat

VARIABLES
    widget,   \* the widget: geometry, effect and the animations of both
    over,     \* the mouse is over the widget, or it has the focus
    home,     \* the geometry that the layout gave it last
    wanted,   \* history: the last fade; "cut" if a glow took the effect of a fade-out
    lit,      \* history: the last call of an effect was applyGlow()
    untouched, \* history: only the handlers of a card have moved it
    asked     \* calls of the program and of the layout so far

motionVars == <<widget, over, home, wanted, lit, untouched, asked>>

Origin == [place |-> 0, size |-> 0]
Still == [kind |-> "none", frames |-> {}, to |-> Origin]

(* _base_geometry is a set of at most one geometry.  The shadow is an      *)
(* effect that the program has set itself.                                 *)
MotionInit ==
    /\ widget \in [look : {"card", "button", "input", "plain"}, at : {Origin}, base : {{}},
                   move : {Still}, cached : {{}}, effect : {"none", "shadow"},
                   pulse : {"none"}, visible : {TRUE}]
    /\ over = FALSE /\ home = Origin
    /\ wanted = "none" /\ lit = FALSE /\ untouched = TRUE /\ asked = 0

-----------------------------------------------------------------------------
Moved(g, by) == [g EXCEPT !.place = @ + by]
Scaled(g, by) == [g EXCEPT !.size = @ + by]
Lifted(g) == Moved(g, -Lift)

Around(x, a, b) == (a <= x /\ x <= b) \/ (b <= x /\ x <= a)
Geometries == [place : -(MaxAway + Lift)..MaxAway, size : -MaxAway..MaxAway]
Between(a, b) ==
    {g \in Geometries : Around(g.place, a.place, b.place) /\ Around(g.size, a.size, b.size)}

(* animate(), and the animations of "geometry" that are made in place *)
Animate(w, kind, frames, to) ==
    [w EXCEPT !.move = [kind |-> kind, frames |-> frames, to |-> to]]

(* fadeIn() and fadeOut() *)
ShownAndFadedIn(w) == [w EXCEPT !.visible = TRUE, !.effect = "fade", !.pulse = "in"]
FadedOut(w) == [w EXCEPT !.effect = "fade", !.pulse = "out"]

(* slideInFromTop() and the others: the widget jumps away and comes back   *)
SlidIn(w, away) ==
    Animate([w EXCEPT !.at = Moved(@, away)], "slide", Between(Moved(w.at, away), w.at), w.at)

(* scaleUp(), scaleDown() and shake() *)
ScaledUp(w) ==
    Animate([w EXCEPT !.at = Scaled(@, -1)], "scale", Between(Scaled(w.at, -1), w.at), w.at)
ScaledDown(w) == Animate(w, "scale", Between(w.at, Scaled(w.at, -1)), Scaled(w.at, -1))
Shaken(w) == Animate(w, "shake", Between(Moved(w.at, -1), Moved(w.at, 1)), w.at)

(* stopBreathing(): the widget stays as large as it is *)
StopBreathing(w) ==
    [w EXCEPT !.cached = @ \ {"breathing"},
              !.move = IF "breathing" \in w.cached /\ w.move.kind = "breathing" THEN Still ELSE @]

(* applyBreathing(): grows the widget from where it is, again and again *)
ApplyBreathing(w) ==
    [Animate(StopBreathing(w), "breathing", Between(w.at, Scaled(w.at, 1)), w.at)
        EXCEPT !.cached = @ \cup {"breathing"}]

(* applyGlow(): an effect that was there is gone, and its animation        *)
ApplyGlow(w) == [w EXCEPT !.effect = "glow", !.pulse = "glow"]

(* The fade that was wanted last, when a glow takes its effect away *)
Overtaken == IF widget.effect = "fade" /\ wanted = "out" THEN "cut" ELSE wanted

(* removeGlow(): the effect goes when it has faded, a shadow as well *)
RemoveGlow(w) == [w EXCEPT !.pulse = IF w.effect \in {"glow", "shadow"} THEN "unglow" ELSE @]

(* applyPress(): a group of two animations *)
ApplyPress(w) == Animate(w, "press", Between(w.at, Scaled(w.at, -1)), w.at)

StopLift(w) ==
    [w EXCEPT !.cached = @ \ {"hover_lift"},
              !.move = IF "hover_lift" \in w.cached /\ w.move.kind = "hover_lift" THEN Still ELSE @]

(* A mistaken BaseOf: the geometry is taken every time *)
BaseTakenAgain(w) == w.at

(* The geometry is remembered the first time *)
BaseOf(w) == IF w.base = {} THEN w.at ELSE CHOOSE g \in w.base : TRUE

ApplyHoverLift(w) ==
    LET top == Lifted(BaseOf(w))
    IN  [Animate(StopLift(w), "hover_lift", Between(w.at, top), top)
            EXCEPT !.base = {BaseOf(w)}, !.cached = @ \cup {"hover_lift"}]

RemoveHoverLift(w) ==
    IF w.base = {} THEN StopLift(w)
    ELSE Animate(StopLift(w), "return", Between(w.at, BaseOf(w)), BaseOf(w))

-----------------------------------------------------------------------------
InReach(w) == w.at \in Geometries /\ w.move.to \in Geometries

(* Card::enterEvent(), with and without m_hoverEnabled, and leaveEvent() *)
CardEnter ==
    /\ widget.look = "card" /\ ~ over /\ over' = TRUE
    /\ \/ /\ widget' = ApplyHoverLift(ApplyBreathing(ApplyGlow(widget)))
          /\ lit' = TRUE /\ wanted' = Overtaken
       \/ UNCHANGED <<widget, lit, wanted>>
    /\ UNCHANGED <<home, untouched, asked>>

CardLeave ==
    /\ widget.look = "card" /\ over /\ over' = FALSE
    /\ widget' = RemoveHoverLift(StopBreathing(RemoveGlow(widget)))
    /\ lit' = FALSE /\ UNCHANGED <<home, wanted, untouched, asked>>

(* Button::enterEvent(), with and without m_breathing, and leaveEvent();   *)
(* the hover filter of the side bar does the same.                         *)
ButtonEnter ==
    /\ widget.look = "button" /\ ~ over /\ over' = TRUE
    /\ widget' \in {ApplyGlow(widget), ApplyBreathing(ApplyGlow(widget))}
    /\ wanted' = Overtaken /\ lit' = TRUE /\ UNCHANGED <<home, untouched, asked>>

ButtonLeave ==
    /\ widget.look = "button" /\ over /\ over' = FALSE
    /\ widget' = StopBreathing(RemoveGlow(widget))
    /\ lit' = FALSE /\ UNCHANGED <<home, wanted, untouched, asked>>

(* Button::mousePressEvent() *)
Press ==
    /\ widget.look = "button" /\ Scaled(widget.at, -1) \in Geometries
    /\ widget' = ApplyPress(widget)
    /\ UNCHANGED <<over, home, wanted, lit, untouched, asked>>

(* Input::focusInEvent() and focusOutEvent() *)
FocusIn ==
    /\ widget.look = "input" /\ ~ over /\ over' = TRUE
    /\ widget' = ApplyGlow(widget)
    /\ wanted' = Overtaken /\ lit' = TRUE /\ UNCHANGED <<home, untouched, asked>>

FocusOut ==
    /\ widget.look = "input" /\ over /\ over' = FALSE
    /\ widget' = RemoveGlow(widget)
    /\ lit' = FALSE /\ UNCHANGED <<home, wanted, untouched, asked>>

(* The calls of a program, on any widget and at any time *)
Ask == asked < MaxAsked /\ asked' = asked + 1

FadeIn ==
    /\ Ask /\ widget' = ShownAndFadedIn(widget) /\ wanted' = "in" /\ lit' = FALSE
    /\ UNCHANGED <<over, home, untouched>>

FadeOut ==
    /\ Ask /\ widget' = FadedOut(widget) /\ wanted' = "out" /\ lit' = FALSE
    /\ UNCHANGED <<over, home, untouched>>

CallMove ==
    /\ Ask
    /\ widget' \in {SlidIn(widget, -1), SlidIn(widget, 1), ScaledUp(widget), ScaledDown(widget),
                    Shaken(widget), ApplyBreathing(widget), StopBreathing(widget),
                    ApplyPress(widget), ApplyHoverLift(widget), RemoveHoverLift(widget)}
    /\ InReach(widget') /\ untouched' = FALSE
    /\ UNCHANGED <<over, home, wanted, lit>>

CallGlow ==
    /\ Ask
    /\ \/ widget' = ApplyGlow(widget) /\ lit' = TRUE /\ wanted' = Overtaken
       \/ widget' = RemoveGlow(widget) /\ lit' = FALSE /\ UNCHANGED wanted
    /\ UNCHANGED <<over, home, untouched>>

(* The layout puts the widget elsewhere *)
Relayout ==
    /\ Ask /\ home' \in [place : 0..MaxAway, size : {0}] /\ widget' = [widget EXCEPT !.at = home']
    /\ UNCHANGED <<over, wanted, lit, untouched>>

-----------------------------------------------------------------------------
(* A frame of the running animation, and its end *)
Frame ==
    /\ \E g \in widget.move.frames : widget' = [widget EXCEPT !.at = g]
    /\ UNCHANGED <<over, home, wanted, lit, untouched, asked>>

(* The second animation of a press is elastic, and passes its end *)
MoveEnds ==
    LET back == widget.move.to IN
    /\ widget.move.kind \notin {"none", "breathing"}
    /\ widget' = IF widget.move.kind = "press"
                 THEN Animate([widget EXCEPT !.at = Scaled(back, -1)], "release",
                              Between(Scaled(back, -1), Scaled(back, 1)), back)
                 ELSE [widget EXCEPT !.at = back, !.move = Still]
    /\ UNCHANGED <<over, home, wanted, lit, untouched, asked>>

(* The handlers of finished() of the animations of effects *)
PulseEnds ==
    /\ widget.pulse # "none"
    /\ widget' = [widget EXCEPT !.pulse = "none",
                                !.visible = IF widget.pulse = "out" THEN FALSE ELSE @,
                                !.effect = IF widget.pulse = "glow" THEN @ ELSE "none"]
    /\ UNCHANGED <<over, home, wanted, lit, untouched, asked>>

MotionNext ==
    \/ CardEnter \/ CardLeave \/ ButtonEnter \/ ButtonLeave \/ Press \/ FocusIn \/ FocusOut
    \/ FadeIn \/ FadeOut \/ CallMove \/ CallGlow \/ Relayout
    \/ Frame \/ MoveEnds \/ PulseEnds

-----------------------------------------------------------------------------
(* A card that is entered and left at any moment of its animations comes   *)
(* back to its place: what applyHoverLift() remembers is never a geometry  *)
(* of an animation under way (animation.cpp:329).  Not so if the layout    *)
(* has moved it since, which nothing tells applyHoverLift().               *)
CardComesHome ==
    (widget.look = "card" /\ untouched /\ widget.base \subseteq {home}
        /\ widget.move.kind = "none" /\ ~ over) => widget.at = home

(* When no animation of the effect runs the widget glows exactly if that   *)
(* was asked for last, no fade is left on it, a widget that was faded in   *)
(* is visible, and one that was faded out is not (animation.cpp:50, :68,   *)
(* :259).  Not the last if a glow came before the fade-out had ended: the  *)
(* new effect ends its animation, and nobody hides the widget              *)
(* (animation.cpp:212).                                                    *)
EffectsSettle ==
    widget.pulse = "none" =>
        /\ widget.effect # "fade"
        /\ wanted = "in" => widget.visible
        /\ wanted = "out" => ~ widget.visible
        /\ lit <=> widget.effect = "glow"

(* Both: animations that start before the last one has ended.              *)
MotionSound == CardComesHome /\ EffectsSettle

-----------------------------------------------------------------------------
(***************************************************************************)
(* The parts of the user interface that keep state: sc::Theme and the      *)
(* widgets that follow it (theme.cpp, base_widget.cpp, base_dialog.cpp),   *)
(* sc::Navigation over a QStackedWidget (navigation.cpp), and              *)
(* sc::ui::BaseViewModel, which threads share (base_view_model.cpp).       *)
(*                                                                         *)
(* A palette or a style sheet is the name of the colours it was made from. *)
(***************************************************************************)
CONSTANTS
    Widgets,      \* BaseWidgets and BaseDialogs
    Pages,        \* widgets that are pushed, each with a title of its own
    MaxTitles,    \* bound on the titles
    Updaters,     \* threads that set properties
    Properties,   \* values of a property
    MaxUpdates    \* bound on the calls of set() and setLoading()

VARIABLES
    mode, style,  \* Theme::m_mode; the colours of m_style
    chosen,       \* "theme.mode" in the configuration, and in its file
    palette,      \* the palette of the application
    sheet,        \* the style sheet of every widget that was made
    signalled,    \* history: themeChanged() followed the last change of style
    pages, top,   \* the QStackedWidget: its widgets and currentIndex() + 1
    titles,       \* Navigation::s_titles
    swapped,      \* history: a page has gone to another place than its title
    stale,        \* history: titles of pages that are no longer there are left
    value,        \* m_properties of one key
    loading,      \* m_isLoading
    shown,        \* what the view shows of both
    update,       \* per thread, the signal it has still to emit
    updates,      \* calls so far
    overlapped    \* history: two calls of setLoading() overlapped

themeVars == <<mode, style, chosen, palette, sheet, signalled>>
navigationVars == <<pages, top, titles, swapped, stale>>
modelVars == <<value, loading, shown, update, updates, overlapped>>
uiVars == <<themeVars, navigationVars, modelVars>>

-----------------------------------------------------------------------------
(* Theme.  The style that Style() builds is none of the three.             *)
Modes == {"Light", "Dark", "System"}

ThemeInit ==
    /\ mode = "Dark" /\ style = "built" /\ palette = "platform"
    /\ chosen = [now |-> "Light", file |-> "Light"]   \* getString("theme.mode", "0")
    /\ sheet = [w \in {} |-> "none"] /\ signalled = FALSE

(* loadLightTheme(), loadDarkTheme() and loadSystemTheme() *)
Load(m) ==
    /\ mode' = m
    /\ style' \in IF m = "System" THEN {"Light", "Dark"} ELSE {m}

(* init() and restoreThemeMode(): nobody is told *)
Restore ==
    /\ Load(IF chosen.now \in Modes THEN chosen.now ELSE "Dark")
    /\ signalled' = FALSE
    /\ UNCHANGED <<chosen, palette, sheet>>

(* A mistaken Announce: the widgets are told before the style is loaded *)
AnnounceOld == sheet' = [w \in DOMAIN sheet |-> style]

(* themeChanged(): every widget restyles itself *)
Announce == sheet' = [w \in DOMAIN sheet |-> style']

SetMode(m) ==
    /\ mode # m
    /\ Load(m) /\ chosen' = [chosen EXCEPT !.now = m]
    /\ palette' = style' /\ Announce /\ signalled' = TRUE

(* The constructors of BaseWidget and BaseDialog apply the present style *)
MakeWidget(w) ==
    /\ w \notin DOMAIN sheet
    /\ sheet' = [x \in DOMAIN sheet \cup {w} |-> IF x = w THEN style ELSE sheet[x]]
    /\ UNCHANGED <<mode, style, chosen, palette, signalled>>

(* The configuration is saved, or someone edits its file; a new process    *)
SaveChoice(m) ==
    /\ m = chosen.now \/ m = "unknown"
    /\ chosen' = [chosen EXCEPT !.file = m]
    /\ UNCHANGED <<mode, style, palette, sheet, signalled>>

NewProcess ==
    /\ mode' = "Dark" /\ style' = "built" /\ palette' = "platform"
    /\ chosen' = [chosen EXCEPT !.now = chosen.file]
    /\ sheet' = [w \in {} |-> "none"] /\ signalled' = FALSE

ThemeNext ==
    /\ \/ Restore \/ NewProcess
       \/ \E m \in Modes : SetMode(m)
       \/ \E m \in Modes \cup {"unknown"} : SaveChoice(m)
       \/ \E w \in Widgets : MakeWidget(w)
    /\ UNCHANGED <<navigationVars, modelVars>>

-----------------------------------------------------------------------------
(* Navigation.  External: a QStackedWidget keeps a page once, and moves    *)
(* one that is added again.  The page that is shown is the same after a    *)
(* removal or an insertion, or the next one if it was removed itself.      *)
NavigationInit ==
    pages = <<>> /\ top = 0 /\ titles = <<>> /\ swapped = FALSE /\ stale = FALSE

(* The current index when the page at k is taken out and n are left *)
CurrentWithout(cur, k, n) ==
    IF k = cur THEN (IF k > n THEN n ELSE k) ELSE IF k < cur THEN cur - 1 ELSE cur

(* and when a page comes to k *)
CurrentWith(cur, k) == IF cur = 0 THEN k ELSE IF k <= cur THEN cur + 1 ELSE cur

(* setRootWidget(), with a stack that has no pages yet: the titles stay *)
SetRootWidget ==
    /\ pages' = <<>> /\ top' = 0 /\ UNCHANGED titles
    /\ swapped' = FALSE /\ stale' = (titles # <<>>)

Push(p) ==
    /\ Len(titles) < MaxTitles
    /\ pages' = Append(RemoveOne(pages, p), p) /\ titles' = Append(titles, p)
    /\ top' = Len(pages')
    /\ swapped' = (swapped \/ p \in Range(pages)) /\ stale' = (stale \/ p \in Range(pages))

(* A mistaken Pop: the title stays *)
PopKeepsTitle ==
    /\ Len(pages) > 1 /\ pages' = RemoveAt(pages, top)
    /\ top' = Len(pages') /\ UNCHANGED <<titles, swapped, stale>>

Pop ==
    /\ Len(pages) > 1
    /\ pages' = RemoveAt(pages, top) /\ titles' = Front(titles)
    /\ top' = Len(pages') /\ UNCHANGED <<swapped, stale>>

(* popToRoot() removes every page, the root included, and as many titles *)
PopToRoot ==
    /\ pages' = <<>> /\ titles' = SubSeq(titles, 1, Len(titles) - Len(pages)) /\ top' = 0
    /\ swapped' = FALSE /\ stale' = (titles' # <<>>)

(* replace(): currentIndex() is read again after the removal has changed   *)
(* it, for the place of the new page, and after the insertion has, for the *)
(* place of its title.                                                     *)
Replace(p) ==
    LET rest == RemoveAt(pages, top)
        next == CurrentWithout(top, top, Len(rest))
        others == RemoveOne(rest, p)
        cur == IF p \in Range(rest) THEN CurrentWithout(next, PlaceOf(rest, p), Len(others)) ELSE next
        at == IF next \in 1..Len(others) THEN next ELSE Len(others) + 1
    IN /\ pages # <<>>
       /\ pages' = InsertAt(others, at, p) /\ top' = at
       /\ titles' = [titles EXCEPT ![CurrentWith(cur, at)] = p]
       /\ swapped' = (swapped \/ stale \/ rest # <<>>)
       /\ stale' = (stale \/ p \in Range(rest))

NavigationNext ==
    /\ SetRootWidget \/ Pop \/ PopToRoot \/ \E p \in Pages : Push(p) \/ Replace(p)
    /\ UNCHANGED <<themeVars, modelVars>>

-----------------------------------------------------------------------------
(* BaseViewModel: the value is set under m_mutex, the signal is emitted    *)
(* after it was released.  propertyChanged() names the key, and its        *)
(* receiver reads the value; loadingChanged() carries the value.           *)
NoSignal == [kind |-> "none", carries |-> FALSE]

ModelInit ==
    /\ value \in Properties /\ loading = FALSE
    /\ shown = [value |-> value, loading |-> FALSE]
    /\ update = [t \in Updaters |-> NoSignal]
    /\ updates = 0 /\ overlapped = FALSE

(* A mistaken SetProperty: the signal is emitted before the value is set   *)
SetPropertyLate(t, v) ==
    /\ update[t] = NoSignal /\ updates < MaxUpdates /\ v # value
    /\ shown' = [shown EXCEPT !.value = value] /\ value' = v
    /\ updates' = updates + 1 /\ UNCHANGED <<loading, update, overlapped>>

(* set() and setValue(): nothing is done when the value is the same *)
SetProperty(t, v) ==
    /\ update[t] = NoSignal /\ updates < MaxUpdates /\ v # value
    /\ value' = v /\ update' = [update EXCEPT ![t].kind = "property"]
    /\ updates' = updates + 1 /\ UNCHANGED <<loading, shown, overlapped>>

SetLoading(t, b) ==
    /\ update[t] = NoSignal /\ updates < MaxUpdates /\ b # loading
    /\ loading' = b /\ update' = [update EXCEPT ![t] = [kind |-> "loading", carries |-> b]]
    /\ overlapped' = (overlapped \/ \E o \in Updaters : update[o].kind = "loading")
    /\ updates' = updates + 1 /\ UNCHANGED <<value, shown>>

Emit(t) ==
    /\ update[t] # NoSignal /\ update' = [update EXCEPT ![t] = NoSignal]
    /\ shown' = IF update[t].kind = "property" THEN [shown EXCEPT !.value = value]
                ELSE [shown EXCEPT !.loading = update[t].carries]
    /\ UNCHANGED <<value, loading, updates, overlapped>>

ModelNext ==
    /\ \E t \in Updaters :
          \/ \E v \in Properties : SetProperty(t, v)
          \/ \E b \in BOOLEAN : SetLoading(t, b)
          \/ Emit(t)
    /\ UNCHANGED <<themeVars, navigationVars>>

UiInit == ThemeInit /\ NavigationInit /\ ModelInit
UiNext == ThemeNext \/ NavigationNext \/ ModelNext

-----------------------------------------------------------------------------
(* After setMode() the application and every widget, made before or after, *)
(* show the style of the mode, which is the one in the configuration; not  *)
(* so after init(), which tells nobody (theme.cpp:13, :41).                *)
WidgetsFollowTheme ==
    signalled => /\ palette = style /\ chosen.now = mode
                 /\ \A w \in DOMAIN sheet : sheet[w] = style
                 /\ mode # "System" => style = mode

(* A page never lacks its title.  There are as many titles as pages until  *)
(* a page is pushed or inserted that is already there, or another root     *)
(* widget is set with titles left, which nothing then takes away           *)
(* (navigation.cpp:9, :17, :61).  The title on top is the one of the page  *)
(* on top, and so all the way down, until a page is pushed again or one    *)
(* over another is replaced, which goes below the one it was over          *)
(* (navigation.cpp:60-62); popToRoot(), after which no page is left, and   *)
(* setRootWidget() begin anew.                                             *)
TitlesMatchPages ==
    /\ Len(titles) >= Len(pages)
    /\ ~ stale => Len(titles) = Len(pages)
    /\ ~ swapped => /\ top = Len(pages)
                    /\ \A n \in DOMAIN pages : pages[n] = titles[Len(titles) - Len(pages) + n]

(* When every signal is out the view shows the last value, whatever order  *)
(* the threads emitted in; the loading flag only if no two calls of        *)
(* setLoading() overlapped (base_view_model.cpp:26, :38).                  *)
ViewCatchesUp ==
    (\A t \in Updaters : update[t] = NoSignal) =>
        /\ shown.value = value
        /\ ~ overlapped => shown.loading = loading

UiSound == WidgetsFollowTheme /\ TitlesMatchPages /\ ViewCatchesUp

-----------------------------------------------------------------------------
(***************************************************************************)
(* Controls that keep state between events: sc::SideBar (sidebar.cpp),     *)
(* sc::Toast with its ToastManager (toast.cpp), and the animated parts of  *)
(* sc::Switch and sc::Slider (switch.cpp, slider.cpp).  All run in the     *)
(* thread of the event loop.                                               *)
(*                                                                         *)
(* The style sheet of a button of the bar says whether it is active.       *)
(* External: QTimer, QPropertyAnimation and deleteLater().                 *)
(***************************************************************************)
CONSTANTS
    Items,      \* ids of side bar items
    MaxItems,   \* bound on the length of the bar
    ToastCount, \* toasts that are made
    MaxShows,   \* bound on the calls of show()
    Travel      \* ticks of an animation from one end to the other

ASSUME ControlsAssumption == ToastCount \in Nat /\ Travel \in Nat \ {0}

VARIABLES
    items,      \* SideBar::m_items, by id
    buttons,    \* the buttons of m_layout: id and whether styled as active
    activeItem, \* m_activeId
    toasts,     \* the toasts made so far
    shelf,      \* the layout of the ToastManager
    shows,      \* calls of show() so far
    knob        \* the Switch and the Slider: wanted, at, goal, moving

barVars == <<items, buttons, activeItem>>
toastVars == <<toasts, shelf, shows>>
controlsVars == <<barVars, toastVars, knob>>

-----------------------------------------------------------------------------
(* SideBar *)
BarInit == items = <<>> /\ buttons = <<>> /\ activeItem = "none"

(* updateStyle() *)
Styled(bs, active) == [n \in DOMAIN bs |-> [id |-> bs[n].id, lit |-> bs[n].id = active]]

(* createItemWidget(): the button of an item *)
ButtonOf(i) == [id |-> i, lit |-> FALSE]

AddItem(i) ==
    /\ Len(items) < MaxItems
    /\ items' = Append(items, i)
    /\ buttons' = Styled(Append(buttons, ButtonOf(i)), activeItem)
    /\ UNCHANGED activeItem

(* clearItems() leaves m_items *)
ClearItems == buttons' = <<>> /\ UNCHANGED <<items, activeItem>>

(* removeItem() calls addItem() for the items of the very list that        *)
(* addItem() appends to: the remaining items are there twice.  That is     *)
(* undefined when the list is reallocated, as the loop then reads memory   *)
(* that was freed: it finds the same, or the process ends and another      *)
(* begins with an empty bar.                                               *)
RemoveItem(i) ==
    LET left == RemoveOne(items, i)
    IN  \/ /\ 2 * Len(left) <= MaxItems
           /\ items' = left \o left
           /\ buttons' = Styled([m \in DOMAIN left |-> ButtonOf(left[m])], activeItem)
           /\ UNCHANGED activeItem
        \/ left # <<>> /\ items' = <<>> /\ buttons' = <<>> /\ activeItem' = "none"

(* A mistaken SetActiveItem: the buttons are styled before the id is set *)
SetActiveLate(i) ==
    /\ activeItem' = i /\ buttons' = Styled(buttons, activeItem) /\ UNCHANGED items

(* setActiveItem(), and the click on a button *)
SetActiveItem(i) ==
    /\ activeItem' = i /\ buttons' = Styled(buttons, i) /\ UNCHANGED items

BarNext ==
    \/ ClearItems
    \/ \E i \in Items : AddItem(i) \/ RemoveItem(i) \/ SetActiveItem(i)

-----------------------------------------------------------------------------
(* Toast.  "closing" is between close() and the deletion.                  *)
ToastInit == toasts = <<>> /\ shelf = <<>> /\ shows = 0

(* ToastManager::addToast(): a widget of the layout is moved to the end *)
AddToast(t) == shelf' = Append(Only(shelf, Range(shelf) \ {t}), t)

(* A mistaken Shown: the timer is made only once, and not started again *)
ShownOnce(toast) ==
    [stays |-> toast.stays, is |-> "shown", armed |-> ~ toast.stays /\ toast.is = "made",
     timed |-> toast.timed \/ ~ toast.stays]

(* show(): a new timer replaces the old one; without a duration the old    *)
(* one goes on                                                             *)
Shown(toast) ==
    [stays |-> toast.stays, is |-> "shown", armed |-> toast.armed \/ ~ toast.stays,
     timed |-> toast.timed \/ ~ toast.stays]

(* A toast before it is shown: it stays if it has no duration.  `timed' is *)
(* history: some show() had a duration.                                    *)
Made(stays) == [stays |-> stays, is |-> "made", armed |-> FALSE, timed |-> FALSE]

(* info(), warning(), error() and success() *)
Notify(stays) ==
    /\ Len(toasts) < ToastCount
    /\ toasts' = Append(toasts, Shown(Made(stays)))
    /\ AddToast(Len(toasts) + 1) /\ UNCHANGED shows

(* setDuration(), of a toast on the screen *)
SetDuration(t, stays) ==
    /\ toasts[t].is = "shown" /\ toasts' = [toasts EXCEPT ![t].stays = stays]
    /\ UNCHANGED <<shelf, shows>>

ShowAgain(t) ==
    /\ shows < MaxShows /\ shows' = shows + 1
    /\ toasts[t].is = "shown"
    /\ toasts' = [toasts EXCEPT ![t] = Shown(@)] /\ AddToast(t)

(* The timer fires, or the user closes the toast; closeEvent() *)
CloseToast(t) ==
    /\ toasts[t].is = "shown"
    /\ toasts' = [toasts EXCEPT ![t] = [@ EXCEPT !.is = "closing", !.armed = FALSE]]
    /\ UNCHANGED <<shelf, shows>>

DeleteToast(t) ==
    /\ toasts[t].is = "closing"
    /\ toasts' = [toasts EXCEPT ![t].is = "gone"]
    /\ shelf' = Only(shelf, Range(shelf) \ {t}) /\ UNCHANGED shows

ToastNext ==
    \/ \E stays \in BOOLEAN : Notify(stays)
    \/ \E t \in DOMAIN toasts :
          \/ ShowAgain(t) \/ CloseToast(t) \/ DeleteToast(t)
          \/ \E stays \in BOOLEAN : SetDuration(t, stays)

ToastFairness ==
    \A t \in 1..ToastCount :
        /\ WF_toastVars(t \in DOMAIN toasts /\ toasts[t].armed /\ CloseToast(t))
        /\ WF_toastVars(t \in DOMAIN toasts /\ DeleteToast(t))

-----------------------------------------------------------------------------
(* Switch and Slider: m_sliderPosition and m_glowProgress follow m_checked *)
(* and m_isDragging.                                                       *)
Knobs == {"switch", "slider"}
KnobInit == knob = [k \in Knobs |-> [wanted |-> FALSE, at |-> 0, goal |-> 0, moving |-> FALSE]]

End(w) == IF w THEN Travel ELSE 0

(* A mistaken Retarget: start() without stop() does nothing to an          *)
(* animation that runs                                                     *)
RetargetIdle(k, w) ==
    knob' = [knob EXCEPT ![k] = [wanted |-> w, at |-> @.at, moving |-> TRUE,
                                 goal |-> IF @.moving THEN @.goal ELSE End(w)]]

(* stop(), setStartValue(), setEndValue() and start() *)
Retarget(k, w) ==
    knob' = [knob EXCEPT ![k] = [wanted |-> w, at |-> @.at, goal |-> End(w), moving |-> TRUE]]

(* Switch::setChecked(), also from a click *)
SetChecked(w) == knob["switch"].wanted # w /\ Retarget("switch", w)

(* Slider::mousePressEvent() and mouseReleaseEvent() *)
Drag(w) == Retarget("slider", w)

(* A tick of the animation *)
Glide(k) ==
    /\ knob[k].moving
    /\ knob' = [knob EXCEPT ![k] =
                   [wanted |-> @.wanted, goal |-> @.goal, moving |-> @.at # @.goal,
                    at |-> IF @.at < @.goal THEN @.at + 1
                           ELSE IF @.at > @.goal THEN @.at - 1 ELSE @.at]]

KnobNext ==
    \/ \E w \in BOOLEAN : SetChecked(w) \/ Drag(w)
    \/ \E k \in Knobs : Glide(k)

-----------------------------------------------------------------------------
ControlsInit == BarInit /\ ToastInit /\ KnobInit

ControlsNext ==
    \/ BarNext /\ UNCHANGED <<toastVars, knob>>
    \/ ToastNext /\ UNCHANGED <<barVars, knob>>
    \/ KnobNext /\ UNCHANGED <<barVars, toastVars>>

-----------------------------------------------------------------------------
(* The buttons of the bar are those of the last items, in their order and  *)
(* whatever was removed or cleared, unless removeItem() ended the process, *)
(* and exactly those of the active item are styled so (sidebar.cpp:36,     *)
(* :52, :73).                                                              *)
BarShowsActive ==
    /\ Len(buttons) <= Len(items)
    /\ \A n \in DOMAIN buttons :
         /\ buttons[n].id = items[Len(items) - Len(buttons) + n]
         /\ buttons[n].lit <=> buttons[n].id = activeItem

(* The manager holds each toast on the screen once, and one has a timer    *)
(* that will close it exactly if some show() had a duration, however often *)
(* and with what duration it is shown again (toast.cpp:43-54).             *)
ToastsAreTimed ==
    /\ IsInjective(shelf)
    /\ \A t \in DOMAIN toasts :
         /\ t \in ToSet(shelf) <=> toasts[t].is \in {"shown", "closing"}
         /\ toasts[t].is = "shown" => (toasts[t].armed <=> toasts[t].timed)

(* A toast that was shown with a duration goes away, unless it is shown    *)
(* again for ever (toast.cpp:43-54).                                       *)
ToastsGoAway ==
    \A t \in 1..ToastCount :
        (t \in DOMAIN toasts /\ toasts[t].timed) ~> (t \in DOMAIN toasts /\ toasts[t].is = "gone")

(* Clicks in any moment leave the animation on its way to the side that is *)
(* wanted, and when it stops it is there.                                  *)
KnobsFollow ==
    \A k \in Knobs : LET n == knob[k] IN
        /\ n.goal = End(n.wanted) /\ n.at \in 0..Travel
        /\ ~ n.moving => n.at = n.goal

(* All three (sidebar.cpp:31-72, toast.cpp:22-54, switch.cpp:20-30,        *)
(* slider.cpp:135-155).                                                    *)
ControlsSound == BarShowsActive /\ ToastsAreTimed /\ KnobsFollow
=============================================================================

----------------------------- MODULE AtvDomViews -----------------------------
(***************************************************************************)
(* DomViewManager of XmlDir/js/main.js: views by name over the device's    *)
(* atv.DOMView, and option dialogs whose options call back through         *)
(* callbackEvents.  The names of these callbacks, DialogOption_0 and so    *)
(* on, are the same for every dialog, and a callback that is no function   *)
(* is not registered.  A page's script calls the functions; the viewer     *)
(* chooses options and leaves views.                                       *)
(***************************************************************************)
EXTENDS Naturals, FiniteSets

CONSTANTS
    Views,      \* the calls of createView, and the views they make
    Names,
    Options,    \* the indices of a dialog's options
    None

NamesAssumption == None \notin Views \cup Names

VARIABLES
    name,       \* name[v]: the name v was created with
    asks,       \* asks[v]: the options of its dialog with a function, None without a dialog
    views,      \* views[n]: the view of that name
    config,     \* config[n]: the view whose dialog is kept for that name
    callbacks,  \* callbackEvents["DialogOption_i"]: whose function it is
    shown,      \* shown[v]: the document on the device's stack for v: the view
                \* whose dialog it is, or Page
    newest,     \* history: the view whose dialog was created last
    called,     \* history: the last option chosen, and whose function was called
    replaced    \* history: views that lost their name to another while shown

vars == <<name, asks, views, config, callbacks, shown, newest, called, replaced>>

Page   == "page"     \* a document of the caller's
NoCall == [dialog |-> None, option |-> None, by |-> None, last |-> FALSE]

Init ==
    /\ name = [v \in Views |-> None]
    /\ asks = [v \in Views |-> None]
    /\ views = [n \in Names |-> None]
    /\ config = [n \in Names |-> None]
    /\ callbacks = [i \in Options |-> None]
    /\ shown = [v \in Views |-> None]
    /\ newest = None /\ called = NoCall /\ replaced = {}

-----------------------------------------------------------------------------
\* _saveView.
SaveView(v, n) ==
    /\ name[v] = None
    /\ name' = [name EXCEPT ![v] = n]
    /\ views' = [views EXCEPT ![n] = v]
    /\ replaced' = IF views[n] # None /\ shown[views[n]] # None
                   THEN replaced \union {views[n]} ELSE replaced

\* RegisterCallbackEvent for the options of a dialog.
RegisterCallbacks(v, functions) ==
    callbacks' = [i \in Options |-> IF i \in functions THEN v ELSE callbacks[i]]

\* createView with a dialog ...
CreateDialog(v, n) ==
    /\ SaveView(v, n)
    /\ \E functions \in SUBSET Options :
          asks' = [asks EXCEPT ![v] = functions] /\ RegisterCallbacks(v, functions)
    /\ config' = [config EXCEPT ![n] = v]
    /\ newest' = v
    /\ UNCHANGED <<shown, called>>

\* ... without one, and with null or a dialog without options, for which
\* _createDialogXML throws.
CreateView(v, n) ==
    /\ SaveView(v, n)
    /\ \/ config' = [config EXCEPT ![n] = None]
       \/ UNCHANGED config
    /\ UNCHANGED <<asks, callbacks, shown, newest, called>>

\* loadView, with a document of the caller's or the dialog of the name.  Without
\* a view it throws and logs that; without a document the device shows nothing.
LoadView(n) ==
    /\ views[n] # None
    /\ \E doc \in {Page, config[n]} \ {None} : shown' = [shown EXCEPT ![views[n]] = doc]
    /\ UNCHANGED <<name, asks, views, config, callbacks, newest, called, replaced>>

Unload(n) == shown' = [shown EXCEPT ![views[n]] = None]

\* unloadView, which throws for a name that has no view.
UnloadView(n) ==
    /\ views[n] # None
    /\ Unload(n)
    /\ UNCHANGED <<name, asks, views, config, callbacks, newest, called, replaced>>

\* Mutant of RemoveView: the name is given up, and nothing unloaded.
RemoveOnly(n) ==
    /\ views[n] # None
    /\ views' = [views EXCEPT ![n] = None]
    /\ UNCHANGED <<name, asks, config, callbacks, shown, newest, called, replaced>>

\* removeView calls it first.
RemoveView(n) ==
    /\ views[n] # None
    /\ Unload(n)
    /\ views' = [views EXCEPT ![n] = None]
    /\ UNCHANGED <<name, asks, config, callbacks, newest, called, replaced>>

\* The viewer chooses an option of a dialog that is shown: fireCallback.
FireCallback(v, i) ==
    /\ shown[v] \notin {None, Page}
    /\ called' = [dialog |-> shown[v], option |-> i, by |-> callbacks[i],
                  last |-> shown[v] = newest]
    /\ UNCHANGED <<name, asks, views, config, callbacks, shown, newest, replaced>>

\* The viewer leaves a view.
Leave(v) ==
    /\ shown[v] # None
    /\ shown' = [shown EXCEPT ![v] = None]
    /\ UNCHANGED <<name, asks, views, config, callbacks, newest, called, replaced>>

Next ==
    \/ \E v \in Views, n \in Names : CreateDialog(v, n) \/ CreateView(v, n)
    \/ \E n \in Names : LoadView(n) \/ UnloadView(n) \/ RemoveView(n)
    \/ \E v \in Views : Leave(v) \/ \E i \in Options : FireCallback(v, i)

Spec == Init /\ [][Next]_vars

-----------------------------------------------------------------------------
\* An option of the dialog that was created last calls its own function; one of
\* an older dialog, or one without a function, may call another dialog's.
OptionOwn ==
    called.last /\ called.option \in asks[called.dialog] => called.by = called.dialog

\* The script can unload every view that is shown, by its name, unless it gave
\* the name to another view meanwhile.
Unloadable ==
    \A v \in Views : shown[v] # None => views[name[v]] = v \/ v \in replaced

ViewsOwn == OptionOwn /\ Unloadable
=============================================================================

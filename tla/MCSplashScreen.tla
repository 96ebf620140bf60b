---------------------------- MODULE MCSplashScreen ----------------------------
EXTENDS SplashScreen

\* A theme like those of the distribution: a service's icon that fades in and
\* out, a textbox, a progress bar, the main message and the log.
MCObjs  == {"icon", "panel", "bar", "msg", "log"}
MCKind  == [icon |-> "icon", panel |-> "box", bar |-> "bar", msg |-> "message", log |-> "log"]
MCSvc   == [icon |-> "started"]
MCTextbox == {"panel", "log"}
NoTime  == [o \in MCObjs |-> 0]
IconFades  == [NoTime EXCEPT !["icon"] = 400]
PanelToo   == [IconFades EXCEPT !["panel"] = 600]

MCStates == {"start", "started"}
MCValues == {0, 1}
Both     == BOOLEAN
===============================================================================

--------------------------- MODULE MCWeekPlanner ---------------------------
EXTENDS WeekPlanner

CONSTANTS a1, a2, a3, b1

MCMenus == {a1, a2, a3, b1}

\* Two genres: a streak can be forced, and can be avoided at the cost of a
\* repeat or of history.
MCGenreOf == [m \in MCMenus |-> IF m \in {a1, a2, a3} THEN "a" ELSE "b"]

\* No candidate, fewer than days, exactly as many as days (of which a week can
\* use up one genre and must then relax a rule).
MCFilters == {{}, {a1}, MCMenus}

\* Nothing recent; or one genre's menu and one of the other, among them every
\* candidate of a small filter.
MCHistories == {{}, {a1, b1}}
=============================================================================

\* Every job that waits with a lock in hand, a page and a watcher.
CONSTANTS
    asking = asking  viewing = viewing
    bobTask = bobTask  aliceTask = aliceTask  watching = watching
    Tasks = {asking, viewing, bobTask, aliceTask, watching}
    JobOf <- OneOfEach
SPECIFICATION Spec
INVARIANTS NoCycle
PROPERTIES AllFinish

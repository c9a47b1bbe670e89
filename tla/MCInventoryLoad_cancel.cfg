\* "Cancellation ... does not trigger callbacks" (tests/unit/async_task_test.cpp).
CONSTANTS
    MaxReloads = 1
    CatalogErrors <- JsonErrors
SPECIFICATION Spec
PROPERTIES CancelledTaskNeverReports
